---- MODULE Spec2Model ----
(***************************************************************************)
(* Refresh-rate / idle-mode feature negotiation of the nt37290 panel       *)
(* driver: the desired (feat) and committed (hw_feat) state, the idle-rate *)
(* resolver, the reconciliation / command-batch builder, the frequency     *)
(* orchestration and the early-exit trigger, driven by the panel           *)
(* callbacks (mode_set, set_nolp_mode, set_self_refresh, commit_done,      *)
(* enable, disable).                                                       *)
(*                                                                         *)
(* The driver functions are operators on a context record c (struct        *)
(* exynos_panel + struct nt37290_panel, plus what the call has sent and    *)
(* returned so far); each action applies one callback to the current       *)
(* context and stores the result.                                          *)
(***************************************************************************)
EXTENDS Integers, Sequences, FiniteSets, TLC

VARIABLES
    feat,                 \* spanel->feat: desired features
    hw_feat,              \* spanel->hw_feat: features committed to the panel
    hw_vrefresh,          \* spanel->hw_vrefresh
    hw_idle_vrefresh,     \* spanel->hw_idle_vrefresh
    auto_mode_vrefresh,   \* spanel->auto_mode_vrefresh: resolved idle rate
    delayed_idle,         \* spanel->delayed_idle
    panel_idle_vrefresh,  \* ctx->panel_idle_vrefresh
    current_mode,         \* ctx->current_mode (NoMode is NULL)
    enabled,              \* is_panel_active(ctx)
    self_refresh_active,  \* ctx->self_refresh_active
    min_vrefresh,         \* ctx->min_vrefresh
    hbm_on,               \* IS_HBM_ON(ctx->hbm_mode)
    dimming_on,           \* ctx->dimming_on
    panel_idle_enabled,   \* ctx->panel_idle_enabled
    idle_delay_ms,        \* ctx->idle_delay_ms
    mode_set_age_us,      \* ktime_get() - ctx->last_mode_set_ts, saturated
    local_hbm_enabled,    \* ctx->hbm.local_hbm.enabled
    rev_ge_evt1,          \* ctx->panel_rev >= PANEL_REV_EVT1
    brightness,           \* ctx->bl->props.brightness
    dsi_fails,            \* the DSI transport fails the transfers it is given
    sched,                \* the panel's lock, the threads in a callback, the wire
    last                  \* what the last callback was given, did, sent and returned

vars == <<feat, hw_feat, hw_vrefresh, hw_idle_vrefresh, auto_mode_vrefresh,
          delayed_idle, panel_idle_vrefresh, current_mode, enabled,
          self_refresh_active, min_vrefresh, hbm_on, dimming_on,
          panel_idle_enabled, idle_delay_ms, mode_set_age_us,
          local_hbm_enabled, rev_ge_evt1, brightness, dsi_fails, sched, last>>

----------------------------------------------------------------------------
(* Bounds of the model *)

\* The time since the last mode-set saturates here: the idle delay does not
\* lie above it, so all larger elapsed times behave alike.
MaxElapsedUs == 50000

\* The largest minimum refresh rate the resolver is tried on.
MaxMinVrefresh == 121

----------------------------------------------------------------------------
(* Program constants *)

G10_FEAT_EARLY_EXIT == 0
G10_FEAT_FRAME_AUTO == 1
G10_FEAT_MAX == 2

EARLY_EXIT_THRESHOLD_US == 17000
IDLE_DELAY_THRESHOLD_US == 50000

NT37290_TE2_MIN_RATE == 30
NT37290_TE2_CHANGEABLE == 2      \* 0x02
NT37290_TE2_FIXED == 34          \* 0x22

\* .dft_brightness and .max_brightness of the panel description
nt37290_dft_brightness == 1023
nt37290_max_brightness == 4094

IDLE_MODE_UNSUPPORTED == "IDLE_MODE_UNSUPPORTED"
IDLE_MODE_ON_INACTIVITY == "IDLE_MODE_ON_INACTIVITY"
IDLE_MODE_ON_SELF_REFRESH == "IDLE_MODE_ON_SELF_REFRESH"

IdleModes == {IDLE_MODE_UNSUPPORTED, IDLE_MODE_ON_INACTIVITY, IDLE_MODE_ON_SELF_REFRESH}

\* struct exynos_panel_mode, reduced to what the driver reads of it
PanelMode(n, v, i, lp) == [name |-> n, vrefresh |-> v, idle_mode |-> i, is_lp_mode |-> lp]

\* ctx->current_mode == NULL
NoMode == PanelMode("none", 0, IDLE_MODE_UNSUPPORTED, FALSE)

\* the mode table of the panel
nt37290_modes ==
    { PanelMode("1440x3120x60", 60, IDLE_MODE_UNSUPPORTED, FALSE),
      PanelMode("1440x3120x120", 120, IDLE_MODE_ON_SELF_REFRESH, FALSE) }

\* the low-power (AOD) mode; idle_mode is left zero-initialised
nt37290_lp_mode == PanelMode("1440x3120x30", 30, IDLE_MODE_UNSUPPORTED, TRUE)

\* The callbacks take any struct exynos_panel_mode: a mode of the third
\* idle-mode kind, which the table above does not use.
OtherModes ==
    { PanelMode("60/inactivity", 60, IDLE_MODE_ON_INACTIVITY, FALSE) }

NormalModes == nt37290_modes \cup OtherModes
Modes == NormalModes \cup {nt37290_lp_mode}

\* ctx->min_vrefresh: the bucket edges of the resolver and their neighbours
MinVrefreshValues == {0, 10, 30, 60}

\* <<hbm_on, dimming_on, panel_idle_enabled>>: auto mode allowed, and each
\* of the three conditions that forbid it
AutoModeValues ==
    { <<FALSE, FALSE, TRUE>>, <<TRUE, FALSE, TRUE>>, <<FALSE, TRUE, TRUE>>,
      <<FALSE, FALSE, FALSE>> }

\* microseconds since the last commit, as commit_done finds them: the two
\* thresholds of the early-exit trigger and their neighbours
CommitDeltas == {16999, 17000, 50000, 50001}

\* ctx->idle_delay_ms: not configured, or 50 ms
IdleDelayValues == {0, 50}

\* How far the clock moves between two events, in microseconds
TickSteps == {49999, 50000}

Min(a, b) == IF a < b THEN a ELSE b

\* the threads that bring the events of one panel: the atomic commit with
\* its mode-set, and the commit-done notification
Threads == {"mode_set", "commit_done"}

\* nobody is in a callback, nothing was sent
NoThreads ==
    [ mode_lock |-> "none",                       \* the holder of the panel's lock
      pc |-> [t \in Threads |-> "idle"],          \* where each thread is
      res |-> [t \in Threads |-> <<>>],           \* what its callback decided
      tx |-> "none",                              \* who is sending a batch
      sent |-> <<>>,                              \* the last batch on the wire
      interleaved |-> FALSE ]                     \* two batches were mixed

\* errno values returned by the timing source
EAGAIN == 11
EINVAL == 22

\* an answer of exynos_panel_get_current_mode_te2: the return value and,
\* when it is 0, the u16 edges of struct exynos_panel_te2_timing
Te2Result(ret, r, f) == [ret |-> ret, rising_edge |-> r, falling_edge |-> f]
Te2NotReady == Te2Result(-EAGAIN, 0, 0)

\* the edges of the mode table, and edges that do not fit in 8 bits
Te2Edges == { <<0, 48>>, <<261, 560>> }

Te2Results ==
    { Te2Result(0, e[1], e[2]) : e \in Te2Edges }
        \cup { Te2NotReady, Te2Result(-EINVAL, 0, 0) }

\* ctx->bl->props.brightness: the default and the maximum
BrightnessValues == {nt37290_dft_brightness, nt37290_max_brightness}

----------------------------------------------------------------------------
(* Commands on the wire *)

\* one DCS write: its bytes, and whether it flushes the buffered batch
Cmd(b, f) == [bytes |-> b, flush |-> f]

\* EXYNOS_DCS_BUF_ADD / EXYNOS_DCS_BUF_ADD_SET
BUF_ADD(c, b) == [c EXCEPT !.wire = Append(@, Cmd(b, FALSE))]
\* EXYNOS_DCS_BUF_ADD_AND_FLUSH, and the unbuffered EXYNOS_DCS_WRITE_*
\* the transfer's error code is logged by the macro and not handed back
BUF_ADD_AND_FLUSH(c, b) ==
    [c EXCEPT !.wire = Append(@, Cmd(b, TRUE)), !.io_err = @ \/ c.dsi_fails]

display_on == <<41>>                       \* 0x29
cmd2_page0 == <<240, 85, 170, 82, 8, 0>>   \* F0 55 AA 52 08 00
stream_2c == <<44>>                        \* 0x2C
exit_aod == <<56>>                         \* 0x38

\* register payloads of the frame insertion control (0xBA)
BA_manual_60 == <<186, 145, 1, 1, 0, 1, 1, 1, 0>>
BA_auto_10 == <<186, 147, 9, 3, 0, 17, 11, 11, 0, 6>>
BA_auto_30 == <<186, 147, 3, 2, 0, 17, 3, 3, 0, 4>>
BA_auto_60 == <<186, 147, 1, 1, 0, 1, 1, 1, 0, 0>>

----------------------------------------------------------------------------
(* The context the driver functions work on *)

\* what a callback has done so far: nothing
NoTrace ==
    [ wire |-> <<>>,        \* commands handed to the transport, in order
      updated |-> FALSE,    \* return value of nt37290_update_panel_feat
      upf |-> "none",       \* nt37290_update_panel_feat: not called / "same" / "flush"
      enforce |-> FALSE,    \* its enforce argument
      same |-> FALSE,       \* at its entry desired and committed state were equal
      cf |-> 0,             \* calls of nt37290_change_frequency
      bl |-> 0,             \* calls of backlight_state_changed
      warn |-> FALSE,       \* dev_warn of the batch builder
      err |-> FALSE,        \* the callback returned an error code
      ee |-> "none",        \* nt37290_trigger_early_exit: not called / "skip" / "full" / "light"
      io_err |-> FALSE,     \* a transfer of the call failed in the transport
      oops |-> FALSE ]      \* the call dereferenced a NULL pointer and did not return

\* the context at the entry of a callback
Ctx ==
    [ feat |-> feat, hw_feat |-> hw_feat, hw_vrefresh |-> hw_vrefresh,
      hw_idle_vrefresh |-> hw_idle_vrefresh,
      auto_mode_vrefresh |-> auto_mode_vrefresh, delayed_idle |-> delayed_idle,
      panel_idle_vrefresh |-> panel_idle_vrefresh,
      current_mode |-> current_mode, enabled |-> enabled,
      self_refresh_active |-> self_refresh_active,
      min_vrefresh |-> min_vrefresh, hbm_on |-> hbm_on, dimming_on |-> dimming_on,
      panel_idle_enabled |-> panel_idle_enabled, idle_delay_ms |-> idle_delay_ms,
      mode_set_age_us |-> mode_set_age_us,
      local_hbm_enabled |-> local_hbm_enabled, rev_ge_evt1 |-> rev_ge_evt1,
      brightness |-> brightness, dsi_fails |-> dsi_fails,
      delta_us |-> 0,       \* ktime_get() - ctx->last_commit_ts, set by the caller
      te2 |-> Te2NotReady,  \* what exynos_panel_get_current_mode_te2 answers
      wire |-> NoTrace.wire, updated |-> NoTrace.updated, upf |-> NoTrace.upf,
      enforce |-> NoTrace.enforce, same |-> NoTrace.same, cf |-> NoTrace.cf, bl |-> NoTrace.bl,
      warn |-> NoTrace.warn, err |-> NoTrace.err, ee |-> NoTrace.ee,
      io_err |-> NoTrace.io_err, oops |-> NoTrace.oops ]

\* bit operations on a feature bitmap, a set of bit numbers
set_bit(nr, bitmap) == bitmap \cup {nr}
clear_bit(nr, bitmap) == bitmap \ {nr}
test_bit(nr, bitmap) == nr \in bitmap
bitmap_xor(a, b) == (a \ b) \cup (b \ a)
bitmap_fill == 0 .. (G10_FEAT_MAX - 1)
bitmap_empty(bitmap) == bitmap = {}

drm_mode_vrefresh(pmode) == pmode.vrefresh

----------------------------------------------------------------------------
(* Idle-rate resolver *)

is_panel_active(c) == c.enabled

\* auto mode that a dimming transition does not stop
auto_mode_allowed_while_dimming(c) ==
    IF c.hbm_on THEN FALSE ELSE c.panel_idle_enabled

is_auto_mode_allowed(c) ==
    IF c.hbm_on \/ c.dimming_on THEN FALSE ELSE c.panel_idle_enabled

\* milliseconds since the last mode-set (ktime_ms_delta truncates)
panel_get_idle_time_delta(c) == c.mode_set_age_us \div 1000

\* the resolver with the idle rate allowed to equal the target rate
update_min_idle_vrefresh_not_below(c, pmode) ==
    LET vrefresh == drm_mode_vrefresh(pmode)
        min == c.min_vrefresh
        bucket == IF min = 0 \/ ~is_auto_mode_allowed(c)
                     \/ pmode.idle_mode = IDLE_MODE_UNSUPPORTED THEN 0
                  ELSE IF min <= 10 THEN 10
                  ELSE IF min <= 30 THEN 30
                  ELSE IF min <= 60 THEN 60
                  ELSE 0
        below == IF bucket > vrefresh THEN 0 ELSE bucket
        delay == below # 0 /\ c.idle_delay_ms # 0
                 /\ panel_get_idle_time_delta(c) < c.idle_delay_ms
    IN  [c EXCEPT !.delayed_idle = delay,
                  !.auto_mode_vrefresh = IF delay THEN 0 ELSE below]

\* the resolver with idling still deferred when the delay has just elapsed
update_min_idle_vrefresh_late(c, pmode) ==
    LET vrefresh == drm_mode_vrefresh(pmode)
        min == c.min_vrefresh
        bucket == IF min = 0 \/ ~is_auto_mode_allowed(c)
                     \/ pmode.idle_mode = IDLE_MODE_UNSUPPORTED THEN 0
                  ELSE IF min <= 10 THEN 10
                  ELSE IF min <= 30 THEN 30
                  ELSE IF min <= 60 THEN 60
                  ELSE 0
        below == IF bucket >= vrefresh THEN 0 ELSE bucket
        delay == below # 0 /\ c.idle_delay_ms # 0
                 /\ panel_get_idle_time_delta(c) <= c.idle_delay_ms
    IN  [c EXCEPT !.delayed_idle = delay,
                  !.auto_mode_vrefresh = IF delay THEN 0 ELSE below]

nt37290_update_min_idle_vrefresh(c, pmode) ==
    LET vrefresh == drm_mode_vrefresh(pmode)
        min == c.min_vrefresh
        bucket == IF min = 0 \/ ~is_auto_mode_allowed(c)
                     \/ pmode.idle_mode = IDLE_MODE_UNSUPPORTED THEN 0
                  ELSE IF min <= 10 THEN 10
                  ELSE IF min <= 30 THEN 30
                  ELSE IF min <= 60 THEN 60
                  ELSE 0
        below == IF bucket >= vrefresh THEN 0 ELSE bucket
        delay == below # 0 /\ c.idle_delay_ms # 0
                 /\ panel_get_idle_time_delta(c) < c.idle_delay_ms
    IN  [c EXCEPT !.delayed_idle = delay,
                  !.auto_mode_vrefresh = IF delay THEN 0 ELSE below]

----------------------------------------------------------------------------
(* Reconciliation and command batch *)

\* the register sequence that ends where a combination has no payload
feat_cmds_stop_at_unsupported(c, vrefresh, idle_vrefresh) ==
    LET ee == test_bit(G10_FEAT_EARLY_EXIT, c.feat)
        fi == test_bit(G10_FEAT_FRAME_AUTO, c.feat)
        supported == IF ~fi THEN vrefresh = 60 ELSE idle_vrefresh \in {10, 30, 60}
    IN  IF vrefresh = 120 /\ ~fi
        THEN BUF_ADD_AND_FLUSH(BUF_ADD(c, <<47, 0>>), <<68, 0, 0>>)
        ELSE LET c1 == BUF_ADD(c, <<47, 0>>)
                 c2 == BUF_ADD(c1, <<47, 48>>)
                 c3 == BUF_ADD(c2, <<90, IF ee THEN 0 ELSE 1>>)
                 c4 == BUF_ADD(c3, cmd2_page0)
                 c5 == BUF_ADD(c4, <<111, 28>>)
                 c6 == IF ~fi
                       THEN IF vrefresh = 60 THEN BUF_ADD(c5, BA_manual_60)
                            ELSE [c5 EXCEPT !.warn = TRUE]
                       ELSE IF idle_vrefresh = 10 THEN BUF_ADD(c5, BA_auto_10)
                            ELSE IF idle_vrefresh = 30 THEN BUF_ADD(c5, BA_auto_30)
                            ELSE IF idle_vrefresh = 60 THEN BUF_ADD(c5, BA_auto_60)
                            ELSE [c5 EXCEPT !.warn = TRUE]
                 c7 == BUF_ADD(c6, stream_2c)
             IN  IF ~supported THEN c6
                 ELSE IF vrefresh = 120
                 THEN BUF_ADD_AND_FLUSH(c7, <<68, 0, 0>>)
                 ELSE BUF_ADD_AND_FLUSH(c7, <<68, 0, 1>>)

\* the register sequence with the early-exit payload not inverted
feat_cmds_early_exit_not_inverted(c, vrefresh, idle_vrefresh) ==
    LET ee == test_bit(G10_FEAT_EARLY_EXIT, c.feat)
        fi == test_bit(G10_FEAT_FRAME_AUTO, c.feat)
    IN  IF vrefresh = 120 /\ ~fi
        THEN BUF_ADD_AND_FLUSH(BUF_ADD(c, <<47, 0>>), <<68, 0, 0>>)
        ELSE LET c1 == BUF_ADD(c, <<47, 0>>)
                 c2 == BUF_ADD(c1, <<47, 48>>)
                 c3 == BUF_ADD(c2, <<90, IF ee THEN 1 ELSE 0>>)
                 c4 == BUF_ADD(c3, cmd2_page0)
                 c5 == BUF_ADD(c4, <<111, 28>>)
                 c6 == IF ~fi
                       THEN IF vrefresh = 60 THEN BUF_ADD(c5, BA_manual_60)
                            ELSE [c5 EXCEPT !.warn = TRUE]
                       ELSE IF idle_vrefresh = 10 THEN BUF_ADD(c5, BA_auto_10)
                            ELSE IF idle_vrefresh = 30 THEN BUF_ADD(c5, BA_auto_30)
                            ELSE IF idle_vrefresh = 60 THEN BUF_ADD(c5, BA_auto_60)
                            ELSE [c5 EXCEPT !.warn = TRUE]
                 c7 == BUF_ADD(c6, stream_2c)
             IN  IF vrefresh = 120
                 THEN BUF_ADD_AND_FLUSH(c7, <<68, 0, 0>>)
                 ELSE BUF_ADD_AND_FLUSH(c7, <<68, 0, 1>>)

\* the register sequence with the short form kept for a panel that is not
\* in self refresh
feat_cmds_short_outside_self_refresh(c, vrefresh, idle_vrefresh) ==
    LET ee == test_bit(G10_FEAT_EARLY_EXIT, c.feat)
        fi == test_bit(G10_FEAT_FRAME_AUTO, c.feat)
    IN  IF vrefresh = 120 /\ ~fi /\ ~c.self_refresh_active
        THEN BUF_ADD_AND_FLUSH(BUF_ADD(c, <<47, 0>>), <<68, 0, 0>>)
        ELSE LET c1 == BUF_ADD(c, <<47, 0>>)
                 c2 == BUF_ADD(c1, <<47, 48>>)
                 c3 == BUF_ADD(c2, <<90, IF ee THEN 0 ELSE 1>>)
                 c4 == BUF_ADD(c3, cmd2_page0)
                 c5 == BUF_ADD(c4, <<111, 28>>)
                 c6 == IF ~fi
                       THEN IF vrefresh = 60 THEN BUF_ADD(c5, BA_manual_60)
                            ELSE [c5 EXCEPT !.warn = TRUE]
                       ELSE IF idle_vrefresh = 10 THEN BUF_ADD(c5, BA_auto_10)
                            ELSE IF idle_vrefresh = 30 THEN BUF_ADD(c5, BA_auto_30)
                            ELSE IF idle_vrefresh = 60 THEN BUF_ADD(c5, BA_auto_60)
                            ELSE [c5 EXCEPT !.warn = TRUE]
                 c7 == BUF_ADD(c6, stream_2c)
             IN  IF vrefresh = 120
                 THEN BUF_ADD_AND_FLUSH(c7, <<68, 0, 0>>)
                 ELSE BUF_ADD_AND_FLUSH(c7, <<68, 0, 1>>)

\* the register sequence for (vrefresh, idle_vrefresh, feat)
nt37290_feat_cmds(c, vrefresh, idle_vrefresh) ==
    LET ee == test_bit(G10_FEAT_EARLY_EXIT, c.feat)
        fi == test_bit(G10_FEAT_FRAME_AUTO, c.feat)
    IN  IF vrefresh = 120 /\ ~fi
        THEN BUF_ADD_AND_FLUSH(BUF_ADD(c, <<47, 0>>), <<68, 0, 0>>)
        ELSE LET c1 == BUF_ADD(c, <<47, 0>>)                              \* 2F 00
                 c2 == BUF_ADD(c1, <<47, 48>>)                            \* 2F 30
                 c3 == BUF_ADD(c2, <<90, IF ee THEN 0 ELSE 1>>)           \* 5A !ee
                 c4 == BUF_ADD(c3, cmd2_page0)
                 c5 == BUF_ADD(c4, <<111, 28>>)                           \* 6F 1C
                 c6 == IF ~fi
                       THEN IF vrefresh = 60 THEN BUF_ADD(c5, BA_manual_60)
                            ELSE [c5 EXCEPT !.warn = TRUE]
                       ELSE IF idle_vrefresh = 10 THEN BUF_ADD(c5, BA_auto_10)
                            ELSE IF idle_vrefresh = 30 THEN BUF_ADD(c5, BA_auto_30)
                            ELSE IF idle_vrefresh = 60 THEN BUF_ADD(c5, BA_auto_60)
                            ELSE [c5 EXCEPT !.warn = TRUE]
                 c7 == BUF_ADD(c6, stream_2c)
             IN  IF vrefresh = 120
                 THEN BUF_ADD_AND_FLUSH(c7, <<68, 0, 0>>)                 \* 44 00 00
                 ELSE BUF_ADD_AND_FLUSH(c7, <<68, 0, 1>>)                 \* 44 00 01

\* the reconciliation with the committed idle rate left as it was
update_panel_feat_stale_idle(c, pmode, enforce) ==
    LET vrefresh == IF pmode # NoMode THEN drm_mode_vrefresh(pmode)
                    ELSE drm_mode_vrefresh(c.current_mode)
        idle_vrefresh == c.auto_mode_vrefresh
        c0 == [c EXCEPT !.panel_idle_vrefresh = 0, !.enforce = enforce,
                        !.same = (c.feat = c.hw_feat /\ vrefresh = c.hw_vrefresh
                                  /\ idle_vrefresh = c.hw_idle_vrefresh)]
        changed_feat == IF enforce THEN bitmap_fill
                        ELSE bitmap_xor(c0.feat, c0.hw_feat)
    IN  IF ~enforce /\ bitmap_empty(changed_feat)
           /\ vrefresh = c0.hw_vrefresh
           /\ idle_vrefresh = c0.hw_idle_vrefresh
        THEN [c0 EXCEPT !.updated = FALSE, !.upf = "same"]
        ELSE LET c1 == [c0 EXCEPT !.hw_vrefresh = vrefresh,
                                  !.hw_feat = c0.feat]
                 c2 == nt37290_feat_cmds(c1, vrefresh, idle_vrefresh)
             IN  [c2 EXCEPT !.updated = TRUE, !.upf = "flush"]

\* the reconciliation looking at the feature bits only
update_panel_feat_bits_only(c, pmode, enforce) ==
    LET vrefresh == IF pmode # NoMode THEN drm_mode_vrefresh(pmode)
                    ELSE drm_mode_vrefresh(c.current_mode)
        idle_vrefresh == c.auto_mode_vrefresh
        c0 == [c EXCEPT !.panel_idle_vrefresh = 0, !.enforce = enforce,
                        !.same = (c.feat = c.hw_feat /\ vrefresh = c.hw_vrefresh
                                  /\ idle_vrefresh = c.hw_idle_vrefresh)]
        changed_feat == IF enforce THEN bitmap_fill
                        ELSE bitmap_xor(c0.feat, c0.hw_feat)
    IN  IF ~enforce /\ bitmap_empty(changed_feat)
        THEN [c0 EXCEPT !.updated = FALSE, !.upf = "same"]
        ELSE LET c1 == [c0 EXCEPT !.hw_vrefresh = vrefresh,
                                  !.hw_idle_vrefresh = idle_vrefresh,
                                  !.hw_feat = c0.feat]
                 c2 == nt37290_feat_cmds(c1, vrefresh, idle_vrefresh)
             IN  [c2 EXCEPT !.updated = TRUE, !.upf = "flush"]

nt37290_update_panel_feat(c, pmode, enforce) ==
    LET vrefresh == IF pmode # NoMode THEN drm_mode_vrefresh(pmode)
                    ELSE drm_mode_vrefresh(c.current_mode)
        idle_vrefresh == c.auto_mode_vrefresh
        c0 == [c EXCEPT !.panel_idle_vrefresh = 0, !.enforce = enforce,
                        !.same = (c.feat = c.hw_feat /\ vrefresh = c.hw_vrefresh
                                  /\ idle_vrefresh = c.hw_idle_vrefresh)]
        changed_feat == IF enforce THEN bitmap_fill
                        ELSE bitmap_xor(c0.feat, c0.hw_feat)
    IN  IF ~enforce /\ bitmap_empty(changed_feat)
           /\ vrefresh = c0.hw_vrefresh
           /\ idle_vrefresh = c0.hw_idle_vrefresh
        THEN [c0 EXCEPT !.updated = FALSE, !.upf = "same"]
        ELSE LET c1 == [c0 EXCEPT !.hw_vrefresh = vrefresh,
                                  !.hw_idle_vrefresh = idle_vrefresh,
                                  !.hw_feat = c0.feat]
                 c2 == nt37290_feat_cmds(c1, vrefresh, idle_vrefresh)
             IN  [c2 EXCEPT !.updated = TRUE, !.upf = "flush"]

----------------------------------------------------------------------------
(* Frequency orchestration *)

\* the orchestration switching early exit without frame auto
change_frequency_early_exit_only(c, pmode) ==
    LET was_lp_mode == c.current_mode.is_lp_mode
        c1 == nt37290_update_min_idle_vrefresh(c, pmode)
        idle_active ==
            c1.auto_mode_vrefresh # 0
            /\ (pmode.idle_mode = IDLE_MODE_ON_INACTIVITY
                \/ (pmode.idle_mode = IDLE_MODE_ON_SELF_REFRESH
                    /\ c1.self_refresh_active))
        c2 == IF idle_active
              THEN [c1 EXCEPT !.feat = set_bit(G10_FEAT_EARLY_EXIT, @)]
              ELSE [c1 EXCEPT !.feat = clear_bit(G10_FEAT_FRAME_AUTO,
                                                 clear_bit(G10_FEAT_EARLY_EXIT, @))]
        c3 == nt37290_update_panel_feat(c2, pmode, was_lp_mode)
        c4 == [c3 EXCEPT !.panel_idle_vrefresh =
                              IF c3.self_refresh_active THEN c3.hw_idle_vrefresh ELSE 0,
                         !.cf = @ + 1]
    IN  IF c4.updated THEN [c4 EXCEPT !.bl = @ + 1] ELSE c4

\* the orchestration never forcing the flush
change_frequency_unforced(c, pmode) ==
    LET c1 == nt37290_update_min_idle_vrefresh(c, pmode)
        idle_active ==
            c1.auto_mode_vrefresh # 0
            /\ (pmode.idle_mode = IDLE_MODE_ON_INACTIVITY
                \/ (pmode.idle_mode = IDLE_MODE_ON_SELF_REFRESH
                    /\ c1.self_refresh_active))
        c2 == IF idle_active
              THEN [c1 EXCEPT !.feat = set_bit(G10_FEAT_FRAME_AUTO,
                                               set_bit(G10_FEAT_EARLY_EXIT, @))]
              ELSE [c1 EXCEPT !.feat = clear_bit(G10_FEAT_FRAME_AUTO,
                                                 clear_bit(G10_FEAT_EARLY_EXIT, @))]
        c3 == nt37290_update_panel_feat(c2, pmode, FALSE)
        c4 == [c3 EXCEPT !.panel_idle_vrefresh =
                              IF c3.self_refresh_active THEN c3.hw_idle_vrefresh ELSE 0,
                         !.cf = @ + 1]
    IN  IF c4.updated THEN [c4 EXCEPT !.bl = @ + 1] ELSE c4

\* a frequency change that notifies the backlight whether or not anything
\* was sent
change_frequency_always_notifies(c, pmode) ==
    IF c.current_mode = NoMode THEN [c EXCEPT !.oops = TRUE] ELSE
    LET was_lp_mode == c.current_mode.is_lp_mode
        c1 == nt37290_update_min_idle_vrefresh(c, pmode)
        idle_active ==
            c1.auto_mode_vrefresh # 0
            /\ (pmode.idle_mode = IDLE_MODE_ON_INACTIVITY
                \/ (pmode.idle_mode = IDLE_MODE_ON_SELF_REFRESH
                    /\ c1.self_refresh_active))
        c2 == IF idle_active
              THEN [c1 EXCEPT !.feat = set_bit(G10_FEAT_FRAME_AUTO,
                                               set_bit(G10_FEAT_EARLY_EXIT, @))]
              ELSE [c1 EXCEPT !.feat = clear_bit(G10_FEAT_FRAME_AUTO,
                                                 clear_bit(G10_FEAT_EARLY_EXIT, @))]
        c3 == nt37290_update_panel_feat(c2, pmode, was_lp_mode)
        c4 == [c3 EXCEPT !.panel_idle_vrefresh =
                              IF c3.self_refresh_active THEN c3.hw_idle_vrefresh ELSE 0,
                         !.cf = @ + 1]
    IN  [c4 EXCEPT !.bl = @ + 1]

\* a frequency change that keeps the effective idle rate only when it sent
\* a batch
change_frequency_bookkeeping_on_change(c, pmode) ==
    IF c.current_mode = NoMode THEN [c EXCEPT !.oops = TRUE] ELSE
    LET was_lp_mode == c.current_mode.is_lp_mode
        c1 == nt37290_update_min_idle_vrefresh(c, pmode)
        idle_active ==
            c1.auto_mode_vrefresh # 0
            /\ (pmode.idle_mode = IDLE_MODE_ON_INACTIVITY
                \/ (pmode.idle_mode = IDLE_MODE_ON_SELF_REFRESH
                    /\ c1.self_refresh_active))
        c2 == IF idle_active
              THEN [c1 EXCEPT !.feat = set_bit(G10_FEAT_FRAME_AUTO,
                                               set_bit(G10_FEAT_EARLY_EXIT, @))]
              ELSE [c1 EXCEPT !.feat = clear_bit(G10_FEAT_FRAME_AUTO,
                                                 clear_bit(G10_FEAT_EARLY_EXIT, @))]
        c3 == nt37290_update_panel_feat(c2, pmode, was_lp_mode)
        c4 == [c3 EXCEPT !.cf = @ + 1]
    IN  IF c4.updated
        THEN [c4 EXCEPT !.bl = @ + 1,
                        !.panel_idle_vrefresh =
                            IF c3.self_refresh_active THEN c3.hw_idle_vrefresh ELSE 0]
        ELSE c4

\* a frequency change that takes a self-refresh mode for idle whether or not
\* self-refresh is active
change_frequency_idle_without_self_refresh(c, pmode) ==
    IF c.current_mode = NoMode THEN [c EXCEPT !.oops = TRUE] ELSE
    LET was_lp_mode == c.current_mode.is_lp_mode
        c1 == nt37290_update_min_idle_vrefresh(c, pmode)
        idle_active ==
            c1.auto_mode_vrefresh # 0
            /\ (pmode.idle_mode = IDLE_MODE_ON_INACTIVITY
                \/ pmode.idle_mode = IDLE_MODE_ON_SELF_REFRESH)
        c2 == IF idle_active
              THEN [c1 EXCEPT !.feat = set_bit(G10_FEAT_FRAME_AUTO,
                                               set_bit(G10_FEAT_EARLY_EXIT, @))]
              ELSE [c1 EXCEPT !.feat = clear_bit(G10_FEAT_FRAME_AUTO,
                                                 clear_bit(G10_FEAT_EARLY_EXIT, @))]
        c3 == nt37290_update_panel_feat(c2, pmode, was_lp_mode)
        c4 == [c3 EXCEPT !.panel_idle_vrefresh =
                              IF c3.self_refresh_active THEN c3.hw_idle_vrefresh ELSE 0,
                         !.cf = @ + 1]
    IN  IF c4.updated THEN [c4 EXCEPT !.bl = @ + 1] ELSE c4

\* ctx->current_mode is read without a check: with no current mode the
\* call faults on the NULL pointer and does not return
nt37290_change_frequency(c, pmode) ==
    IF c.current_mode = NoMode THEN [c EXCEPT !.oops = TRUE] ELSE
    LET was_lp_mode == c.current_mode.is_lp_mode
        c1 == nt37290_update_min_idle_vrefresh(c, pmode)
        idle_active ==
            c1.auto_mode_vrefresh # 0
            /\ (pmode.idle_mode = IDLE_MODE_ON_INACTIVITY
                \/ (pmode.idle_mode = IDLE_MODE_ON_SELF_REFRESH
                    /\ c1.self_refresh_active))
        c2 == IF idle_active
              THEN [c1 EXCEPT !.feat = set_bit(G10_FEAT_FRAME_AUTO,
                                               set_bit(G10_FEAT_EARLY_EXIT, @))]
              ELSE [c1 EXCEPT !.feat = clear_bit(G10_FEAT_FRAME_AUTO,
                                                 clear_bit(G10_FEAT_EARLY_EXIT, @))]
        c3 == nt37290_update_panel_feat(c2, pmode, was_lp_mode)
        c4 == [c3 EXCEPT !.panel_idle_vrefresh =
                              IF c3.self_refresh_active THEN c3.hw_idle_vrefresh ELSE 0,
                         !.cf = @ + 1]
    IN  IF c4.updated THEN [c4 EXCEPT !.bl = @ + 1] ELSE c4

----------------------------------------------------------------------------
(* Command sets sent as a whole; each is abridged to the commands that     *)
(* open and close it                                                       *)

nt37290_init_cmds == << <<31, 240>>, <<17>> >>                     \* 1F F0 ... 11
nt37290_lhbm_on_setting_cmds == << <<240, 85, 170, 82, 8, 7>>, <<243, 1>> >>   \* F0 55 AA 52 08 07 ... F3 01
nt37290_lp_cmds == << <<57>>, <<47, 0>> >>                         \* 39, 2F 00
nt37290_off_cmds == << <<40>>, <<16>> >>                           \* 28, 10

RECURSIVE exynos_panel_send_cmd_set(_, _)
exynos_panel_send_cmd_set(c, cmds) ==
    IF cmds = <<>> THEN c
    ELSE exynos_panel_send_cmd_set(BUF_ADD_AND_FLUSH(c, Head(cmds)), Tail(cmds))

\* EXYNOS_DCS_WRITE_TABLE / EXYNOS_DCS_WRITE_SEQ_DELAY: one unbuffered write
EXYNOS_DCS_WRITE(c, b) == BUF_ADD_AND_FLUSH(c, b)

\* enter AOD: the low-power command set is sent, the driver state is not touched
exynos_panel_set_lp_mode(c, pmode) == exynos_panel_send_cmd_set(c, nt37290_lp_cmds)

\* power off: the off command set is sent and the panel is no longer active
exynos_panel_disable(c) ==
    [exynos_panel_send_cmd_set(c, nt37290_off_cmds) EXCEPT !.enabled = FALSE]

----------------------------------------------------------------------------
(* TE2 *)

\* the option with the minimum rate itself counted as too low
get_te2_option_upto_min_rate(c) ==
    IF c.current_mode = NoMode THEN NT37290_TE2_CHANGEABLE
    ELSE IF c.current_mode.is_lp_mode
            \/ (c.hw_idle_vrefresh > 0 /\ c.hw_idle_vrefresh <= NT37290_TE2_MIN_RATE)
    THEN NT37290_TE2_FIXED
    ELSE NT37290_TE2_CHANGEABLE

\* the second clause of the guard, "!ctx->current_mode"; ctx is never NULL
nt37290_get_te2_option(c) ==
    IF c.current_mode = NoMode THEN NT37290_TE2_CHANGEABLE
    ELSE IF c.current_mode.is_lp_mode
            \/ (c.hw_idle_vrefresh > 0 /\ c.hw_idle_vrefresh < NT37290_TE2_MIN_RATE)
    THEN NT37290_TE2_FIXED
    ELSE NT37290_TE2_CHANGEABLE

\* the timing of the current mode, as the panel framework finds it
exynos_panel_get_current_mode_te2(c) == c.te2

\* the commands of the TE2 update: option twice, then the timing
nt37290_te2_cmds(c, option, rising, falling) ==
    LET c1 == BUF_ADD(c, <<240, 85, 170, 82, 8, 3>>)         \* F0 55 AA 52 08 03
        c2 == BUF_ADD(c1, <<195, option>>)                   \* C3 option
        c3 == BUF_ADD(c2, <<111, 4>>)                        \* 6F 04
        c4 == BUF_ADD(c3, <<195, option>>)                   \* C3 option
    IN  BUF_ADD_AND_FLUSH(c4, <<196, 0, 0, 0, 0, 0, rising, 16, falling>>)

\* the TE2 update falling back to the default timing on every error
update_te2_default_on_any_error(c) ==
    LET option == nt37290_get_te2_option(c)
        timing == exynos_panel_get_current_mode_te2(c)
    IN  IF timing.ret = 0
        THEN nt37290_te2_cmds(c, option, timing.rising_edge % 256,
                              timing.falling_edge % 256)
        ELSE nt37290_te2_cmds(c, option, 0, 48)

nt37290_update_te2(c) ==
    LET option == nt37290_get_te2_option(c)
        timing == exynos_panel_get_current_mode_te2(c)
    IN  IF timing.ret = 0
        THEN nt37290_te2_cmds(c, option, timing.rising_edge % 256,
                              timing.falling_edge % 256)
        ELSE IF timing.ret = -EAGAIN
        THEN nt37290_te2_cmds(c, option, 0, 48)               \* default timing
        ELSE [c EXCEPT !.warn = TRUE]

----------------------------------------------------------------------------
(* Local high-brightness mode *)

\* the switch that writes the low byte of the level before the high byte
set_local_hbm_mode_low_byte_first(c, local_hbm_en) ==
    IF c.local_hbm_enabled = local_hbm_en THEN c
    ELSE LET c0 == [c EXCEPT !.local_hbm_enabled = local_hbm_en]
         IN  IF local_hbm_en
             THEN LET c5 ==
                      IF c0.rev_ge_evt1
                      THEN LET level == (c0.brightness * 4) % 65536
                               val1 == (level \div 256) % 256
                               val2 == level % 256
                               c1 == BUF_ADD(c0, cmd2_page0)
                               c2 == BUF_ADD(c1, <<111, 76>>)
                               c3 == BUF_ADD(c2, <<223, val2, val1, val2, val1,
                                                   val2, val1>>)
                               c4 == BUF_ADD(c3, <<47, 2>>)
                           IN  BUF_ADD(c4, <<135, 1>>)
                      ELSE BUF_ADD(c0, <<135, 33>>)
                  IN  BUF_ADD_AND_FLUSH(c5, <<133>>)
             ELSE LET c1 == BUF_ADD(c0, <<134>>)
                  IN  IF c1.rev_ge_evt1
                      THEN BUF_ADD_AND_FLUSH(BUF_ADD(c1, <<135, 0>>), <<47, 0>>)
                      ELSE BUF_ADD_AND_FLUSH(c1, <<135, 32>>)

\* the switch without the test of the state that is already active
set_local_hbm_mode_unconditional(c, local_hbm_en) ==
         LET c0 == [c EXCEPT !.local_hbm_enabled = local_hbm_en]
         IN  IF local_hbm_en
             THEN LET c5 ==
                      IF c0.rev_ge_evt1
                      THEN LET level == (c0.brightness * 4) % 65536   \* u16
                               val1 == (level \div 256) % 256         \* u8
                               val2 == level % 256
                               c1 == BUF_ADD(c0, cmd2_page0)
                               c2 == BUF_ADD(c1, <<111, 76>>)         \* 6F 4C
                               c3 == BUF_ADD(c2, <<223, val1, val2, val1, val2,
                                                   val1, val2>>)      \* DF ...
                               c4 == BUF_ADD(c3, <<47, 2>>)           \* 2F 02
                           IN  BUF_ADD(c4, <<135, 1>>)                \* 87 01
                      ELSE BUF_ADD(c0, <<135, 33>>)                   \* 87 21
                  IN  BUF_ADD_AND_FLUSH(c5, <<133>>)                  \* 85
             ELSE LET c1 == BUF_ADD(c0, <<134>>)                      \* 86
                  IN  IF c1.rev_ge_evt1
                      THEN BUF_ADD_AND_FLUSH(BUF_ADD(c1, <<135, 0>>), <<47, 0>>)
                      ELSE BUF_ADD_AND_FLUSH(c1, <<135, 32>>)         \* 87 20

nt37290_set_local_hbm_mode(c, local_hbm_en) ==
    IF c.local_hbm_enabled = local_hbm_en THEN c
    ELSE LET c0 == [c EXCEPT !.local_hbm_enabled = local_hbm_en]
         IN  IF local_hbm_en
             THEN LET c5 ==
                      IF c0.rev_ge_evt1
                      THEN LET level == (c0.brightness * 4) % 65536   \* u16
                               val1 == (level \div 256) % 256         \* u8
                               val2 == level % 256
                               c1 == BUF_ADD(c0, cmd2_page0)
                               c2 == BUF_ADD(c1, <<111, 76>>)         \* 6F 4C
                               c3 == BUF_ADD(c2, <<223, val1, val2, val1, val2,
                                                   val1, val2>>)      \* DF ...
                               c4 == BUF_ADD(c3, <<47, 2>>)           \* 2F 02
                           IN  BUF_ADD(c4, <<135, 1>>)                \* 87 01
                      ELSE BUF_ADD(c0, <<135, 33>>)                   \* 87 21
                  IN  BUF_ADD_AND_FLUSH(c5, <<133>>)                  \* 85
             ELSE LET c1 == BUF_ADD(c0, <<134>>)                      \* 86
                  IN  IF c1.rev_ge_evt1
                      THEN BUF_ADD_AND_FLUSH(BUF_ADD(c1, <<135, 0>>), <<47, 0>>)
                      ELSE BUF_ADD_AND_FLUSH(c1, <<135, 32>>)         \* 87 20

----------------------------------------------------------------------------
(* Callbacks *)

\* the self-refresh callback that runs in the low-power mode too
set_self_refresh_in_lp_mode(c, enable) ==
    LET pmode == c.current_mode
    IN  IF pmode = NoMode THEN [c EXCEPT !.updated = FALSE]
        ELSE nt37290_change_frequency(c, pmode)

nt37290_set_self_refresh(c, enable) ==
    LET pmode == c.current_mode
    IN  IF pmode = NoMode THEN [c EXCEPT !.updated = FALSE]
        ELSE IF pmode.is_lp_mode THEN [c EXCEPT !.updated = FALSE]
        ELSE nt37290_change_frequency(c, pmode)

\* the trigger that leaves the time of the last mode-set as it is
trigger_early_exit_without_stamp(c) ==
    LET delta_us == c.delta_us
    IN  IF delta_us < EARLY_EXIT_THRESHOLD_US THEN [c EXCEPT !.ee = "skip"]
        ELSE IF c.idle_delay_ms # 0 /\ delta_us > IDLE_DELAY_THRESHOLD_US
             THEN nt37290_change_frequency([c EXCEPT !.ee = "full"],
                                           c.current_mode)
             ELSE EXYNOS_DCS_WRITE([c EXCEPT !.ee = "light"], stream_2c)

\* the trigger taking the long-idle path from the threshold on
trigger_early_exit_from_threshold(c) ==
    LET delta_us == c.delta_us
    IN  IF delta_us < EARLY_EXIT_THRESHOLD_US THEN [c EXCEPT !.ee = "skip"]
        ELSE LET c1 == [c EXCEPT !.mode_set_age_us = 0]
             IN  IF c1.idle_delay_ms # 0 /\ delta_us >= IDLE_DELAY_THRESHOLD_US
                 THEN nt37290_change_frequency([c1 EXCEPT !.ee = "full"],
                                               c1.current_mode)
                 ELSE EXYNOS_DCS_WRITE([c1 EXCEPT !.ee = "light"], stream_2c)

nt37290_trigger_early_exit(c) ==
    LET delta_us == c.delta_us
    IN  IF delta_us < EARLY_EXIT_THRESHOLD_US THEN [c EXCEPT !.ee = "skip"]
        ELSE LET c1 == [c EXCEPT !.mode_set_age_us = 0]
             IN  IF c1.idle_delay_ms # 0 /\ delta_us > IDLE_DELAY_THRESHOLD_US
                 THEN nt37290_change_frequency([c1 EXCEPT !.ee = "full"],
                                               c1.current_mode)
                 ELSE EXYNOS_DCS_WRITE([c1 EXCEPT !.ee = "light"], stream_2c)

\* the commit-done that leaves a deferred idle alone
commit_done_early_exit_only(c) ==
    LET pmode == c.current_mode
    IN  IF ~is_panel_active(c) \/ pmode = NoMode THEN c
        ELSE IF test_bit(G10_FEAT_EARLY_EXIT, c.feat)
        THEN nt37290_trigger_early_exit(c)
        ELSE c

nt37290_commit_done(c) ==
    LET pmode == c.current_mode
    IN  IF ~is_panel_active(c) \/ pmode = NoMode THEN c
        ELSE IF test_bit(G10_FEAT_EARLY_EXIT, c.feat)
        THEN nt37290_trigger_early_exit(c)
        ELSE IF pmode.idle_mode = IDLE_MODE_ON_INACTIVITY /\ c.delayed_idle
        THEN nt37290_change_frequency(c, pmode)
        ELSE c

nt37290_set_nolp_mode(c, pmode) ==
    IF ~is_panel_active(c) THEN c
    ELSE LET c1 == EXYNOS_DCS_WRITE(c, exit_aod)
             c2 == nt37290_change_frequency(c1, pmode)
             c3 == EXYNOS_DCS_WRITE(c2, stream_2c)
             c4 == EXYNOS_DCS_WRITE(c3, stream_2c)
         IN  EXYNOS_DCS_WRITE(c4, display_on)

nt37290_enable(c) ==
    LET pmode == c.current_mode
    IN  IF pmode = NoMode THEN [c EXCEPT !.err = TRUE]
        ELSE LET c1 == exynos_panel_send_cmd_set(c, nt37290_init_cmds)
                 c2 == exynos_panel_send_cmd_set(c1, nt37290_lhbm_on_setting_cmds)
                 c3 == nt37290_update_panel_feat(c2, pmode, TRUE)
             IN  IF ~pmode.is_lp_mode THEN EXYNOS_DCS_WRITE(c3, display_on)
                 ELSE exynos_panel_set_lp_mode(c3, pmode)

\* the power-off that also forgets the resolved idle rate
disable_forgets_idle_rate(c) ==
    exynos_panel_disable([c EXCEPT !.hw_feat = @ \ bitmap_fill,
                                   !.hw_vrefresh = 60,
                                   !.hw_idle_vrefresh = 0,
                                   !.auto_mode_vrefresh = 0])

\* the power-off keeping the committed idle rate
disable_keeps_idle(c) ==
    exynos_panel_disable([c EXCEPT !.hw_feat = @ \ bitmap_fill,
                                   !.hw_vrefresh = 60])

nt37290_disable(c) ==
    exynos_panel_disable([c EXCEPT !.hw_feat = @ \ bitmap_fill,
                                   !.hw_vrefresh = 60,
                                   !.hw_idle_vrefresh = 0])

nt37290_mode_set(c, pmode) ==
    IF ~is_panel_active(c) THEN c
    ELSE nt37290_change_frequency(c, pmode)

\* devm_kzalloc and the assignments of the probe
nt37290_panel_probe ==
    [ feat |-> {}, hw_feat |-> {}, hw_vrefresh |-> 60, hw_idle_vrefresh |-> 0,
      auto_mode_vrefresh |-> 0, delayed_idle |-> FALSE ]

----------------------------------------------------------------------------
(* The state machine *)

\* the record of a callback: its name, the time since the last commit if
\* the callback read it, and its trace
Last(op, c) ==
    [ op |-> op, delta_us |-> IF c.ee # "none" THEN c.delta_us ELSE 0,
      wire |-> c.wire, updated |-> c.updated, upf |-> c.upf, enforce |-> c.enforce,
      same |-> c.same, cf |-> c.cf, bl |-> c.bl, warn |-> c.warn, err |-> c.err, ee |-> c.ee,
      io_err |-> c.io_err, oops |-> c.oops ]

\* the context c becomes the state
Store(c) ==
    /\ feat' = c.feat
    /\ hw_feat' = c.hw_feat
    /\ hw_vrefresh' = c.hw_vrefresh
    /\ hw_idle_vrefresh' = c.hw_idle_vrefresh
    /\ auto_mode_vrefresh' = c.auto_mode_vrefresh
    /\ delayed_idle' = c.delayed_idle
    /\ panel_idle_vrefresh' = c.panel_idle_vrefresh
    /\ current_mode' = c.current_mode
    /\ enabled' = c.enabled
    /\ self_refresh_active' = c.self_refresh_active
    /\ mode_set_age_us' = c.mode_set_age_us
    /\ local_hbm_enabled' = c.local_hbm_enabled

\* a call that faulted on a NULL pointer never returns and keeps the panel's
\* lock: no callback runs after it
Alive == ~last.oops

config == <<min_vrefresh, hbm_on, dimming_on, panel_idle_enabled, idle_delay_ms,
            rev_ge_evt1, brightness, dsi_fails, sched>>

Init ==
    /\ feat = nt37290_panel_probe.feat
    /\ hw_feat = nt37290_panel_probe.hw_feat
    /\ hw_vrefresh = nt37290_panel_probe.hw_vrefresh
    /\ hw_idle_vrefresh = nt37290_panel_probe.hw_idle_vrefresh
    /\ auto_mode_vrefresh = nt37290_panel_probe.auto_mode_vrefresh
    /\ delayed_idle = nt37290_panel_probe.delayed_idle
    /\ panel_idle_vrefresh = 0
    /\ current_mode = NoMode
    /\ enabled = FALSE
    /\ self_refresh_active = FALSE
    /\ min_vrefresh \in MinVrefreshValues
    /\ hbm_on = FALSE
    /\ dimming_on = FALSE
    /\ panel_idle_enabled = TRUE
    /\ idle_delay_ms \in IdleDelayValues
    /\ mode_set_age_us = 0
    /\ local_hbm_enabled = FALSE
    /\ rev_ge_evt1 = TRUE
    /\ brightness = nt37290_dft_brightness
    /\ dsi_fails = FALSE
    /\ sched = NoThreads
    /\ last = [ op |-> "probe", delta_us |-> 0,
                 wire |-> NoTrace.wire, updated |-> NoTrace.updated,
                 upf |-> NoTrace.upf, enforce |-> NoTrace.enforce,
                 same |-> NoTrace.same, cf |-> NoTrace.cf,
                 bl |-> NoTrace.bl, warn |-> NoTrace.warn, err |-> NoTrace.err,
                 ee |-> NoTrace.ee, io_err |-> NoTrace.io_err,
                 oops |-> NoTrace.oops ]

\* a mode is set that is not the low-power mode, coming from a mode that is
\* not the low-power mode: the timestamp of the mode-set is taken, the
\* callback runs against the old current mode, then the mode becomes current
ModeSet(pmode) ==
    /\ Alive
    /\ ~current_mode.is_lp_mode
    /\ LET c == nt37290_mode_set([Ctx EXCEPT !.mode_set_age_us = 0], pmode)
       IN  /\ Store([c EXCEPT !.current_mode = IF c.oops THEN @ ELSE pmode])
           /\ last' = Last("mode_set", c)
    /\ UNCHANGED config

\* the low-power mode is set
SetLpMode ==
    /\ Alive
    /\ ~current_mode.is_lp_mode
    /\ LET c == exynos_panel_set_lp_mode([Ctx EXCEPT !.mode_set_age_us = 0],
                                         nt37290_lp_mode)
       IN  /\ Store([c EXCEPT !.current_mode = nt37290_lp_mode])
           /\ last' = Last("set_lp_mode", c)
    /\ UNCHANGED config

\* the low-power mode is left for pmode
SetNolpMode(pmode) ==
    /\ Alive
    /\ current_mode.is_lp_mode
    /\ LET c == nt37290_set_nolp_mode([Ctx EXCEPT !.mode_set_age_us = 0], pmode)
       IN  /\ Store([c EXCEPT !.current_mode = pmode])
           /\ last' = Last("set_nolp_mode", c)
    /\ UNCHANGED config

\* self refresh is entered or left, which happens on an active panel only
SetSelfRefresh(enable) ==
    /\ Alive
    /\ enabled
    /\ LET c == nt37290_set_self_refresh([Ctx EXCEPT !.self_refresh_active = enable],
                                         enable)
       IN  /\ Store(c)
           /\ last' = Last("set_self_refresh", c)
    /\ UNCHANGED config

\* a frame was committed, delta_us after the commit before it
CommitDone(delta_us) ==
    /\ Alive
    /\ LET c == nt37290_commit_done([Ctx EXCEPT !.delta_us = delta_us])
       IN  /\ Store(c)
           /\ last' = Last("commit_done", c)
    /\ UNCHANGED config

\* power on; the panel is active when the callback succeeded
Enable ==
    /\ Alive
    /\ ~enabled
    /\ LET c == nt37290_enable(Ctx)
       IN  /\ Store([c EXCEPT !.enabled = ~c.err])
           /\ last' = Last("enable", c)
    /\ UNCHANGED config

\* power off
Disable ==
    /\ Alive
    /\ enabled
    /\ LET c == nt37290_disable(Ctx)
       IN  /\ Store(c)
           /\ last' = Last("disable", c)
    /\ UNCHANGED config

\* time passes
Tick(d) ==
    /\ mode_set_age_us < MaxElapsedUs
    /\ mode_set_age_us' = Min(mode_set_age_us + d, MaxElapsedUs)
    /\ UNCHANGED <<feat, hw_feat, hw_vrefresh, hw_idle_vrefresh, auto_mode_vrefresh,
                   delayed_idle, panel_idle_vrefresh, current_mode, enabled,
                   self_refresh_active, local_hbm_enabled, config, last>>

\* the requested minimum refresh rate changes
SetMinVrefresh(v) ==
    /\ v # min_vrefresh
    /\ min_vrefresh' = v
    /\ UNCHANGED <<feat, hw_feat, hw_vrefresh, hw_idle_vrefresh, auto_mode_vrefresh,
                   delayed_idle, panel_idle_vrefresh, current_mode, enabled,
                   self_refresh_active, hbm_on, dimming_on, panel_idle_enabled,
                   idle_delay_ms, mode_set_age_us, local_hbm_enabled,
                   rev_ge_evt1, brightness, dsi_fails, sched, last>>

\* high brightness, dimming or panel idle is switched
SetAutoMode(h, d, p) ==
    /\ <<h, d, p>> # <<hbm_on, dimming_on, panel_idle_enabled>>
    /\ <<h, d, p>> \in AutoModeValues
    /\ hbm_on' = h
    /\ dimming_on' = d
    /\ panel_idle_enabled' = p
    /\ UNCHANGED <<feat, hw_feat, hw_vrefresh, hw_idle_vrefresh, auto_mode_vrefresh,
                   delayed_idle, panel_idle_vrefresh, current_mode, enabled,
                   self_refresh_active, min_vrefresh, idle_delay_ms,
                   mode_set_age_us, local_hbm_enabled, rev_ge_evt1, brightness,
                   dsi_fails, sched, last>>

Next ==
    \/ \E pmode \in NormalModes : ModeSet(pmode)
    \/ SetLpMode
    \/ \E pmode \in NormalModes : SetNolpMode(pmode)
    \/ \E enable \in BOOLEAN : SetSelfRefresh(enable)
    \/ \E delta_us \in CommitDeltas : CommitDone(delta_us)
    \/ Enable
    \/ Disable
    \/ \E d \in TickSteps : Tick(d)
    \/ \E v \in MinVrefreshValues : SetMinVrefresh(v)
    \/ \E h, d, p \in BOOLEAN : SetAutoMode(h, d, p)

Spec == Init /\ [][Next]_vars

----------------------------------------------------------------------------
(* The idle-rate resolver on its own: the inputs are drawn at the start,   *)
(* the resolver is applied to them                                         *)

\* every refresh rate of the panel with every idle-mode kind
ResolveModes ==
    { PanelMode("any", v, i, v = 30) : v \in {30, 60, 120}, i \in IdleModes }

ResolveAges == {0, 49999, 50000, MaxElapsedUs}

InitResolve ==
    /\ feat = nt37290_panel_probe.feat
    /\ hw_feat = nt37290_panel_probe.hw_feat
    /\ hw_vrefresh = nt37290_panel_probe.hw_vrefresh
    /\ hw_idle_vrefresh = nt37290_panel_probe.hw_idle_vrefresh
    /\ auto_mode_vrefresh \in {0, 30}
    /\ delayed_idle \in BOOLEAN
    /\ panel_idle_vrefresh = 0
    /\ current_mode \in ResolveModes
    /\ enabled = TRUE
    /\ self_refresh_active = FALSE
    /\ min_vrefresh \in 0 .. MaxMinVrefresh
    /\ hbm_on \in BOOLEAN
    /\ dimming_on \in BOOLEAN
    /\ panel_idle_enabled \in BOOLEAN
    /\ idle_delay_ms \in IdleDelayValues
    /\ mode_set_age_us \in ResolveAges
    /\ local_hbm_enabled = FALSE
    /\ rev_ge_evt1 = TRUE
    /\ brightness = nt37290_dft_brightness
    /\ dsi_fails = FALSE
    /\ sched = NoThreads
    /\ last = [ op |-> "probe", delta_us |-> 0,
                 wire |-> NoTrace.wire, updated |-> NoTrace.updated,
                 upf |-> NoTrace.upf, enforce |-> NoTrace.enforce,
                 same |-> NoTrace.same, cf |-> NoTrace.cf,
                 bl |-> NoTrace.bl, warn |-> NoTrace.warn, err |-> NoTrace.err,
                 ee |-> NoTrace.ee, io_err |-> NoTrace.io_err,
                 oops |-> NoTrace.oops ]

\* the resolver is called for the current mode
Resolve ==
    /\ LET c == nt37290_update_min_idle_vrefresh(Ctx, current_mode)
       IN  /\ Store(c)
           /\ last' = Last("resolve", c)
    /\ UNCHANGED config

NextResolve == Resolve

SpecResolve == InitResolve /\ [][NextResolve]_vars

----------------------------------------------------------------------------
(* The panel with its TE2 signal, local high-brightness mode and a         *)
(* transport that may fail.  The panel may have been lit by the bootloader *)
(* when the driver is probed: it is then active with no current mode.      *)

InitPanel ==
    /\ feat = nt37290_panel_probe.feat
    /\ hw_feat = nt37290_panel_probe.hw_feat
    /\ hw_vrefresh = nt37290_panel_probe.hw_vrefresh
    /\ hw_idle_vrefresh = nt37290_panel_probe.hw_idle_vrefresh
    /\ auto_mode_vrefresh = nt37290_panel_probe.auto_mode_vrefresh
    /\ delayed_idle = nt37290_panel_probe.delayed_idle
    /\ panel_idle_vrefresh = 0
    /\ current_mode = NoMode
    /\ enabled \in BOOLEAN
    /\ self_refresh_active = FALSE
    /\ min_vrefresh \in MinVrefreshValues
    /\ hbm_on = FALSE
    /\ dimming_on = FALSE
    /\ panel_idle_enabled = TRUE
    /\ idle_delay_ms = 0
    /\ mode_set_age_us = 0
    /\ local_hbm_enabled = FALSE
    /\ rev_ge_evt1 \in BOOLEAN
    /\ brightness \in BrightnessValues
    /\ dsi_fails = FALSE
    /\ sched = NoThreads
    /\ last = [ op |-> "probe", delta_us |-> 0,
                 wire |-> NoTrace.wire, updated |-> NoTrace.updated,
                 upf |-> NoTrace.upf, enforce |-> NoTrace.enforce,
                 same |-> NoTrace.same, cf |-> NoTrace.cf,
                 bl |-> NoTrace.bl, warn |-> NoTrace.warn, err |-> NoTrace.err,
                 ee |-> NoTrace.ee, io_err |-> NoTrace.io_err,
                 oops |-> NoTrace.oops ]

\* the TE2 signal is reprogrammed; a timing is found only for a current mode
UpdateTe2(timing) ==
    /\ Alive
    /\ enabled
    /\ timing.ret = 0 => current_mode # NoMode
    /\ LET c == nt37290_update_te2([Ctx EXCEPT !.te2 = timing])
       IN  /\ Store(c)
           /\ last' = Last("update_te2", c)
    /\ UNCHANGED config

\* local high-brightness mode is requested on or off
SetLocalHbmMode(local_hbm_en) ==
    /\ Alive
    /\ enabled
    /\ LET c == nt37290_set_local_hbm_mode(Ctx, local_hbm_en)
       IN  /\ Store(c)
           /\ last' = Last("set_local_hbm_mode", c)
    /\ UNCHANGED config

\* the DSI link starts or stops failing transfers
SetLink(fails) ==
    /\ fails # dsi_fails
    /\ dsi_fails' = fails
    /\ UNCHANGED <<feat, hw_feat, hw_vrefresh, hw_idle_vrefresh, auto_mode_vrefresh,
                   delayed_idle, panel_idle_vrefresh, current_mode, enabled,
                   self_refresh_active, min_vrefresh, hbm_on, dimming_on,
                   panel_idle_enabled, idle_delay_ms, mode_set_age_us,
                   local_hbm_enabled, rev_ge_evt1, brightness, sched, last>>

NextPanel ==
    \/ \E pmode \in NormalModes : ModeSet(pmode)
    \/ SetLpMode
    \/ \E pmode \in NormalModes : SetNolpMode(pmode)
    \/ \E enable \in BOOLEAN : SetSelfRefresh(enable)
    \/ \E delta_us \in CommitDeltas : CommitDone(delta_us)
    \/ Enable
    \/ Disable
    \/ \E timing \in Te2Results : UpdateTe2(timing)
    \/ \E local_hbm_en \in BOOLEAN : SetLocalHbmMode(local_hbm_en)
    \/ \E fails \in BOOLEAN : SetLink(fails)

SpecPanel == InitPanel /\ [][NextPanel]_vars

----------------------------------------------------------------------------
(* Two threads bring the events of one panel, the mode-set of an atomic
   commit and the commit-done notification.  Each takes the panel's lock,
   runs its callback and releases the lock.  The callback is followed step
   by step: it reads the state and decides, it writes the committed state,
   it puts its batch on the wire. *)

\* the positions of a thread between taking the lock and releasing it
CriticalPcs == {"locked", "decided", "committed", "sending", "sent"}

SetPc(t, pc) == [sched EXCEPT !.pc[t] = pc]

\* a lock that lets every caller in
mutex_lock_never_blocks(owner) == TRUE

\* mutex_lock returns when nobody holds the lock
mutex_lock(owner) == owner = "none"

Quiet == \A t \in Threads : sched.pc[t] = "idle"

InitLocked == Init

\* the panel is switched on while no event is being handled
PowerOn ==
    /\ Quiet
    /\ current_mode # NoMode
    /\ Enable

\* an event arrives on thread t
Arrive(t) ==
    /\ Alive
    /\ sched.pc[t] = "idle"
    /\ sched' = SetPc(t, "waiting")
    /\ UNCHANGED <<feat, hw_feat, hw_vrefresh, hw_idle_vrefresh, auto_mode_vrefresh,
                   delayed_idle, panel_idle_vrefresh, current_mode, enabled,
                   self_refresh_active, min_vrefresh, hbm_on, dimming_on,
                   panel_idle_enabled, idle_delay_ms, mode_set_age_us,
                   local_hbm_enabled, rev_ge_evt1, brightness, dsi_fails, last>>

\* thread t takes the lock of the panel
Lock(t) ==
    /\ sched.pc[t] = "waiting"
    /\ mutex_lock(sched.mode_lock)
    /\ sched' = [SetPc(t, "locked") EXCEPT !.mode_lock = t]
    /\ UNCHANGED <<feat, hw_feat, hw_vrefresh, hw_idle_vrefresh, auto_mode_vrefresh,
                   delayed_idle, panel_idle_vrefresh, current_mode, enabled,
                   self_refresh_active, min_vrefresh, hbm_on, dimming_on,
                   panel_idle_enabled, idle_delay_ms, mode_set_age_us,
                   local_hbm_enabled, rev_ge_evt1, brightness, dsi_fails, last>>

\* the mode-set callback reads the state and decides; the time of the
\* mode-set is taken before it
RunModeSet(pmode) ==
    /\ sched.pc["mode_set"] = "locked"
    /\ ~current_mode.is_lp_mode
    /\ LET c == nt37290_mode_set([Ctx EXCEPT !.mode_set_age_us = 0], pmode)
       IN  /\ ~c.oops
           /\ sched' = [SetPc("mode_set", "decided") EXCEPT
                          !.res["mode_set"] = <<[c EXCEPT !.current_mode = pmode]>>]
    /\ mode_set_age_us' = 0
    /\ UNCHANGED <<feat, hw_feat, hw_vrefresh, hw_idle_vrefresh, auto_mode_vrefresh,
                   delayed_idle, panel_idle_vrefresh, current_mode, enabled,
                   self_refresh_active, min_vrefresh, hbm_on, dimming_on,
                   panel_idle_enabled, idle_delay_ms,
                   local_hbm_enabled, rev_ge_evt1, brightness, dsi_fails, last>>

\* the commit-done callback reads the state and decides
RunCommitDone(delta_us) ==
    /\ sched.pc["commit_done"] = "locked"
    /\ LET c == nt37290_commit_done([Ctx EXCEPT !.delta_us = delta_us])
       IN  sched' = [SetPc("commit_done", "decided") EXCEPT
                       !.res["commit_done"] = <<c>>]
    /\ UNCHANGED <<feat, hw_feat, hw_vrefresh, hw_idle_vrefresh, auto_mode_vrefresh,
                   delayed_idle, panel_idle_vrefresh, current_mode, enabled,
                   self_refresh_active, min_vrefresh, hbm_on, dimming_on,
                   panel_idle_enabled, idle_delay_ms, mode_set_age_us,
                   local_hbm_enabled, rev_ge_evt1, brightness, dsi_fails, last>>

\* the callback of thread t writes what it decided: the features, the idle
\* rate, the committed hardware state
Commit(t) ==
    /\ sched.pc[t] = "decided"
    /\ LET c == sched.res[t][1]
       IN  /\ feat' = c.feat
           /\ hw_feat' = c.hw_feat
           /\ hw_vrefresh' = c.hw_vrefresh
           /\ hw_idle_vrefresh' = c.hw_idle_vrefresh
           /\ auto_mode_vrefresh' = c.auto_mode_vrefresh
           /\ delayed_idle' = c.delayed_idle
           /\ panel_idle_vrefresh' = c.panel_idle_vrefresh
           /\ current_mode' = c.current_mode
    /\ sched' = SetPc(t, "committed")
    /\ UNCHANGED <<enabled, self_refresh_active, min_vrefresh, hbm_on, dimming_on,
                   panel_idle_enabled, idle_delay_ms, mode_set_age_us,
                   local_hbm_enabled, rev_ge_evt1, brightness, dsi_fails, last>>

\* the first commands of the batch of thread t go out
SendStart(t) ==
    /\ sched.pc[t] = "committed"
    /\ sched.res[t][1].upf = "flush"
    /\ sched' = [SetPc(t, "sending") EXCEPT
                   !.tx = t,
                   !.interleaved = @ \/ sched.tx # "none"]
    /\ UNCHANGED <<feat, hw_feat, hw_vrefresh, hw_idle_vrefresh, auto_mode_vrefresh,
                   delayed_idle, panel_idle_vrefresh, current_mode, enabled,
                   self_refresh_active, min_vrefresh, hbm_on, dimming_on,
                   panel_idle_enabled, idle_delay_ms, mode_set_age_us,
                   local_hbm_enabled, rev_ge_evt1, brightness, dsi_fails, last>>

\* the last command of the batch of thread t goes out, flushed
SendEnd(t) ==
    /\ sched.pc[t] = "sending"
    /\ sched' = [SetPc(t, "sent") EXCEPT
                   !.tx = IF @ = t THEN "none" ELSE @,
                   !.sent = sched.res[t][1].wire]
    /\ UNCHANGED <<feat, hw_feat, hw_vrefresh, hw_idle_vrefresh, auto_mode_vrefresh,
                   delayed_idle, panel_idle_vrefresh, current_mode, enabled,
                   self_refresh_active, min_vrefresh, hbm_on, dimming_on,
                   panel_idle_enabled, idle_delay_ms, mode_set_age_us,
                   local_hbm_enabled, rev_ge_evt1, brightness, dsi_fails, last>>

\* the callback of thread t has returned: the lock is released
Unlock(t) ==
    /\ \/ sched.pc[t] = "sent"
       \/ sched.pc[t] = "committed" /\ sched.res[t][1].upf # "flush"
    /\ sched' = [SetPc(t, "idle") EXCEPT
                   !.res[t] = <<>>,
                   !.mode_lock = IF @ = t THEN "none" ELSE @]
    /\ UNCHANGED <<feat, hw_feat, hw_vrefresh, hw_idle_vrefresh, auto_mode_vrefresh,
                   delayed_idle, panel_idle_vrefresh, current_mode, enabled,
                   self_refresh_active, min_vrefresh, hbm_on, dimming_on,
                   panel_idle_enabled, idle_delay_ms, mode_set_age_us,
                   local_hbm_enabled, rev_ge_evt1, brightness, dsi_fails, last>>

NextLocked ==
    \/ PowerOn
    \/ \E t \in Threads : Arrive(t)
    \/ \E t \in Threads : Lock(t)
    \/ \E pmode \in NormalModes : RunModeSet(pmode)
    \/ \E delta_us \in CommitDeltas : RunCommitDone(delta_us)
    \/ \E t \in Threads : Commit(t)
    \/ \E t \in Threads : SendStart(t)
    \/ \E t \in Threads : SendEnd(t)
    \/ \E t \in Threads : Unlock(t)
    \/ \E d \in TickSteps : Tick(d)

SpecLocked == InitLocked /\ [][NextLocked]_vars

----------------------------------------------------------------------------
(* Properties of the idle-rate resolver, under SpecResolve *)

\* C1: whatever the minimum refresh rate, the target mode, the auto-mode
\* conditions, the idle-mode kind and the elapsed time are, the idle rate
\* the resolver stores in auto_mode_vrefresh is one of 0, 10, 30, 60, and a
\* nonzero one is strictly below the refresh rate of the requested mode.
C1_IdleRateInRange ==
    last.op = "resolve" =>
        /\ auto_mode_vrefresh \in {0, 10, 30, 60}
        /\ auto_mode_vrefresh # 0 =>
               auto_mode_vrefresh < drm_mode_vrefresh(current_mode)

\* C1 happens: a 60 Hz idle rate was resolved for a 120 Hz mode from a
\* minimum rate between the buckets
C1_Witness ==
    /\ last.op = "resolve"
    /\ min_vrefresh = 31
    /\ drm_mode_vrefresh(current_mode) = 120
    /\ auto_mode_vrefresh = 60

\* the idle rate of steps 1 to 3 of the resolver: the bucket of the minimum
\* rate, or 0 when idling is off or the bucket is not below the target rate
BucketedIdleRate ==
    LET bucket == CHOOSE b \in {0, 10, 30, 60} :
                      \/ b # 0 /\ min_vrefresh \in 1 .. b
                               /\ \A t \in {10, 30, 60} : t < b => min_vrefresh > t
                      \/ b = 0 /\ min_vrefresh \notin 1 .. 60
    IN  IF hbm_on \/ dimming_on \/ ~panel_idle_enabled
           \/ current_mode.idle_mode = IDLE_MODE_UNSUPPORTED
           \/ bucket >= drm_mode_vrefresh(current_mode)
        THEN 0 ELSE bucket

\* C9: with an idle delay configured and inputs that resolve to a nonzero
\* idle rate, the resolver yields 0 with delayed_idle set while less than the
\* delay has passed since the last mode-set, and the bucketed rate with
\* delayed_idle clear from the delay on; delayed_idle is clear whenever the
\* idle rate is 0 for another reason or no delay is configured.
C9_Debounce ==
    last.op = "resolve" =>
        /\ (idle_delay_ms > 0 /\ BucketedIdleRate # 0
            /\ mode_set_age_us < idle_delay_ms * 1000)
               => auto_mode_vrefresh = 0 /\ delayed_idle
        /\ (idle_delay_ms > 0 /\ BucketedIdleRate # 0
            /\ mode_set_age_us >= idle_delay_ms * 1000)
               => auto_mode_vrefresh = BucketedIdleRate /\ ~delayed_idle
        /\ (idle_delay_ms = 0 \/ BucketedIdleRate = 0)
               => ~delayed_idle /\ auto_mode_vrefresh = BucketedIdleRate

\* C9 happens: the delay has just elapsed and idling proceeds
C9_Witness ==
    /\ last.op = "resolve"
    /\ idle_delay_ms = 50
    /\ mode_set_age_us = 50000
    /\ auto_mode_vrefresh = 30
    /\ ~delayed_idle

----------------------------------------------------------------------------
(* Properties of the state machine, under Spec *)

\* the context with the trace of the call before it forgotten
Again(c) ==
    [c EXCEPT !.wire = NoTrace.wire, !.updated = NoTrace.updated,
              !.upf = NoTrace.upf, !.enforce = NoTrace.enforce,
              !.same = NoTrace.same, !.cf = NoTrace.cf, !.bl = NoTrace.bl,
              !.warn = NoTrace.warn, !.err = NoTrace.err, !.ee = NoTrace.ee,
              !.io_err = NoTrace.io_err, !.oops = NoTrace.oops]

\* nt37290_change_frequency is called with pmode in the current state by
\* mode_set and set_nolp_mode on an active panel, by commit_done on an
\* active panel for the current mode, and by set_self_refresh for a current
\* mode that is not the low-power mode
CallsChangeFrequency(pmode) ==
    /\ current_mode # NoMode
    /\ enabled \/ (pmode = current_mode /\ ~pmode.is_lp_mode)

\* the second of two calls in a row with the same mode
SecondCall(pmode) ==
    nt37290_change_frequency(Again(nt37290_change_frequency(Ctx, pmode)), pmode)

\* the batch of nt37290_update_panel_feat ends with the TE shift, flushed
HasBatch(wire) ==
    \E i \in 1 .. Len(wire) :
        wire[i] \in {Cmd(<<68, 0, 0>>, TRUE), Cmd(<<68, 0, 1>>, TRUE)}

\* C2 as stated: in every state in which nt37290_change_frequency is called,
\* the low-power mode included, a second call with the same mode reports no
\* change and sends nothing.
C2_SecondCallUnchanged ==
    \A pmode \in Modes :
        CallsChangeFrequency(pmode) =>
            LET c == SecondCall(pmode) IN ~c.updated /\ c.wire = <<>>

\* C2 amended: in every state in which nt37290_change_frequency is called
\* and the current mode is not the low-power mode, a second call with the
\* same mode reports no change and sends nothing.
C2_SecondCallUnchangedOutsideLp ==
    \A pmode \in Modes :
        (CallsChangeFrequency(pmode) /\ ~current_mode.is_lp_mode) =>
            LET c == SecondCall(pmode) IN ~c.updated /\ c.wire = <<>>

\* C2 happens: a mode-set has just flushed a change with idling active, and
\* the same call again reports none
C2_Witness ==
    /\ last.op = "mode_set"
    /\ last.cf = 1
    /\ last.updated
    /\ auto_mode_vrefresh # 0
    /\ CallsChangeFrequency(current_mode)
    /\ ~nt37290_change_frequency(Ctx, current_mode).updated

\* C3: in every reachable state the EarlyExit and FrameAuto bits are equal
\* to each other in feat, and equal to each other in hw_feat.
C3_Coupled ==
    /\ test_bit(G10_FEAT_EARLY_EXIT, feat) <=> test_bit(G10_FEAT_FRAME_AUTO, feat)
    /\ test_bit(G10_FEAT_EARLY_EXIT, hw_feat) <=> test_bit(G10_FEAT_FRAME_AUTO, hw_feat)

\* C3 happens: nt37290_change_frequency has switched both bits on and
\* committed them
C3_Witness ==
    /\ last.cf = 1
    /\ last.updated
    /\ feat = {G10_FEAT_EARLY_EXIT, G10_FEAT_FRAME_AUTO}
    /\ hw_feat = feat

\* C4: in every reachable state hw_idle_vrefresh is 0 or one of 10, 30, 60,
\* and a nonzero hw_idle_vrefresh is strictly below hw_vrefresh.
C4_CommittedIdleBelowRate ==
    /\ hw_idle_vrefresh \in {0, 10, 30, 60}
    /\ hw_idle_vrefresh # 0 => hw_idle_vrefresh < hw_vrefresh

\* C5: when nt37290_update_panel_feat is called without force and desired
\* and committed features, refresh rate and idle rate are equal, it reports
\* no change, sends nothing and leaves the committed state as it is; when
\* one of the three differs it reports a change and sends a batch.
C5_Reconcile ==
    (last.upf # "none" /\ ~last.enforce) =>
        /\ last.same =>
               /\ ~last.updated
               /\ last.wire = <<>>
               /\ hw_feat = feat
               /\ hw_vrefresh = drm_mode_vrefresh(current_mode)
               /\ hw_idle_vrefresh = auto_mode_vrefresh
        /\ ~last.same => last.updated /\ HasBatch(last.wire)

\* C5 happens: an unforced reconciliation found nothing to change while
\* idling is committed
C5_Witness ==
    /\ last.upf = "same"
    /\ ~last.enforce
    /\ last.same
    /\ hw_idle_vrefresh # 0

\* C6: whenever nt37290_change_frequency runs while the current mode is the
\* low-power mode, and whenever nt37290_enable runs with a current mode, a
\* batch is sent and a change is reported, also when desired and committed
\* state are already equal.
C6_ForcedFlush ==
    (\/ last.cf = 1 /\ last.op = "set_nolp_mode"
     \/ last.cf = 1 /\ last.op = "commit_done" /\ current_mode.is_lp_mode
     \/ last.op = "enable" /\ current_mode # NoMode)
        => last.updated /\ HasBatch(last.wire)

\* C6 happens: the low-power mode was left with desired and committed state
\* equal, and the batch was sent all the same
C6_Witness ==
    /\ last.op = "set_nolp_mode"
    /\ last.cf = 1
    /\ last.same
    /\ last.updated
    /\ HasBatch(last.wire)

\* C7: after every call of nt37290_change_frequency, whether it reports a
\* change or not, hw_feat equals feat, hw_vrefresh is the refresh rate of the
\* requested mode and hw_idle_vrefresh is the idle rate resolved in the call.
C7_CommittedIsDesired ==
    last.cf >= 1 =>
        /\ hw_feat = feat
        /\ hw_vrefresh = drm_mode_vrefresh(current_mode)
        /\ hw_idle_vrefresh = auto_mode_vrefresh

\* C7 happens: a call changed the committed idle rate
C7_Witness ==
    /\ last.cf = 1
    /\ last.updated
    /\ ~last.enforce
    /\ hw_idle_vrefresh = 30
    /\ hw_vrefresh = 120

\* C8 as stated: after nt37290_disable the desired and the committed
\* features are clear, hw_vrefresh is 60, hw_idle_vrefresh is 0,
\* auto_mode_vrefresh is 0 and delayed_idle is false.
C8_AllDefaultsAfterDisable ==
    last.op = "disable" =>
        /\ feat = {}
        /\ hw_feat = {}
        /\ hw_vrefresh = 60
        /\ hw_idle_vrefresh = 0
        /\ auto_mode_vrefresh = 0
        /\ ~delayed_idle

\* C8 amended: nt37290_disable clears the committed features and sets
\* hw_vrefresh to 60 and hw_idle_vrefresh to 0, whatever state preceded; the
\* desired features, auto_mode_vrefresh and delayed_idle are left as they were.
C8_CommittedDefaultsAfterDisable ==
    [][Disable =>
          /\ hw_feat' = {}
          /\ hw_vrefresh' = 60
          /\ hw_idle_vrefresh' = 0
          /\ feat' = feat
          /\ auto_mode_vrefresh' = auto_mode_vrefresh
          /\ delayed_idle' = delayed_idle]_vars

\* C8 happens: the panel was powered off with idling desired and resolved
C8_Witness ==
    /\ last.op = "disable"
    /\ feat = {G10_FEAT_EARLY_EXIT, G10_FEAT_FRAME_AUTO}
    /\ auto_mode_vrefresh = 60
    /\ hw_feat = {}
    /\ hw_idle_vrefresh = 0

Build(c, pmode, idle_vrefresh, f, enforce) ==
    nt37290_update_panel_feat(
        [Again(c) EXCEPT !.feat = f, !.auto_mode_vrefresh = idle_vrefresh],
        pmode, enforce)

Mode120 == PanelMode("1440x3120x120", 120, IDLE_MODE_ON_SELF_REFRESH, FALSE)
Mode60 == PanelMode("1440x3120x60", 60, IDLE_MODE_UNSUPPORTED, FALSE)

\* freq_mode_hs and the TE timing without shift
ManualNoFrameSkip == << Cmd(<<47, 0>>, FALSE), Cmd(<<68, 0, 0>>, TRUE) >>

\* C12: from every reachable state, building the batch for (120, idle 0,
\* no features), then for (60, idle 30, EarlyExit and FrameAuto), then for
\* (120, idle 0, no features) again gives 2F 00, 44 00 00 the first and the
\* third time, whatever was built and committed before and in between.
C12_RoundTrip ==
    LET first == Build(Ctx, Mode120, 0, {}, TRUE)
        second == Build(first, Mode60, 30, bitmap_fill, FALSE)
        third == Build(second, Mode120, 0, {}, FALSE)
    IN  /\ first.wire = ManualNoFrameSkip
        /\ second.upf = "flush"
        /\ second.wire # ManualNoFrameSkip
        /\ third.upf = "flush"
        /\ third.wire = first.wire

\* C12 happens: a callback has just committed (60, idle 30, both features),
\* and the build for (120, idle 0, no features) that follows it gives the
\* two commands
C12_Witness ==
    /\ last.upf = "flush"
    /\ hw_vrefresh = 60
    /\ hw_idle_vrefresh = 30
    /\ hw_feat = bitmap_fill
    /\ self_refresh_active
    /\ Build(Ctx, Mode120, 0, {}, FALSE).wire = ManualNoFrameSkip

\* the callback that ran last called nt37290_change_frequency and returned;
\* the mode it was called for is the current mode now
FrequencyChanged == last.cf = 1 /\ ~last.oops

\* idle is active for the mode the frequency was changed to
IdleActiveNow ==
    /\ auto_mode_vrefresh # 0
    /\ \/ current_mode.idle_mode = IDLE_MODE_ON_INACTIVITY
       \/ /\ current_mode.idle_mode = IDLE_MODE_ON_SELF_REFRESH
          /\ self_refresh_active

\* C18: after a frequency change, early exit and automatic frame insertion
\* are both requested exactly when the idle rate resolved by the call is not
\* 0 and the mode idles on inactivity, or idles on self-refresh while
\* self-refresh is active
C18_IdleActiveFeatures ==
    FrequencyChanged =>
        /\ test_bit(G10_FEAT_EARLY_EXIT, feat) <=> IdleActiveNow
        /\ test_bit(G10_FEAT_FRAME_AUTO, feat) <=> IdleActiveNow

\* a frequency change to the 120 Hz mode with an idle rate and self-refresh
\* not active: the features stay off
C18_Witness ==
    /\ FrequencyChanged
    /\ current_mode = Mode120
    /\ auto_mode_vrefresh # 0
    /\ ~self_refresh_active
    /\ feat = {}

\* high brightness, dimming, panel idle switched off, no minimum rate or a
\* mode without idle
AutoModeOff ==
    \/ hbm_on
    \/ dimming_on
    \/ ~panel_idle_enabled
    \/ min_vrefresh = 0
    \/ current_mode.idle_mode = IDLE_MODE_UNSUPPORTED

\* the idle rates a batch can be built for
IdleRates == {0, 10, 30, 60}

\* the frame insertion command of a batch: the manual payload at 60 Hz, the
\* payload of the idle rate with automatic insertion, none for a
\* combination that has no payload
FrameInsertion(vrefresh, idle_vrefresh, f) ==
    IF ~test_bit(G10_FEAT_FRAME_AUTO, f)
    THEN IF vrefresh = 60 THEN << Cmd(BA_manual_60, FALSE) >> ELSE << >>
    ELSE IF idle_vrefresh = 10 THEN << Cmd(BA_auto_10, FALSE) >>
    ELSE IF idle_vrefresh = 30 THEN << Cmd(BA_auto_30, FALSE) >>
    ELSE IF idle_vrefresh = 60 THEN << Cmd(BA_auto_60, FALSE) >>
    ELSE << >>

\* the batch as it is described, command by command
ExpectedBatch(vrefresh, idle_vrefresh, f) ==
    IF vrefresh = 120 /\ ~test_bit(G10_FEAT_FRAME_AUTO, f)
    THEN << Cmd(<<47, 0>>, FALSE), Cmd(<<68, 0, 0>>, TRUE) >>
    ELSE << Cmd(<<47, 0>>, FALSE),
            Cmd(<<47, 48>>, FALSE),
            Cmd(<<90, IF test_bit(G10_FEAT_EARLY_EXIT, f) THEN 0 ELSE 1>>, FALSE),
            Cmd(<<240, 85, 170, 82, 8, 0>>, FALSE),
            Cmd(<<111, 28>>, FALSE) >>
         \o FrameInsertion(vrefresh, idle_vrefresh, f)
         \o << Cmd(<<44>>, FALSE),
               Cmd(<<68, 0, IF vrefresh = 120 THEN 0 ELSE 1>>, TRUE) >>

\* the callbacks whose commands are one batch and nothing else
BatchOnly == {"mode_set", "set_self_refresh", "commit_done"}

\* C20: the batch built for 120 Hz without automatic frame insertion is
\* 2F 00, 44 00 00; every other batch is 2F 00, 2F 30, 5A with 1 when early
\* exit is off and 0 when it is on, the page-0 select, 6F 1C, the BA
\* command of the combination (manual at 60 Hz, or of the idle rate 10, 30
\* or 60 with automatic insertion), 2C and 44 00 00 at 120 Hz or 44 00 01
\* otherwise; the 44 command is the last and the only one flushed.  It holds
\* for the batch of the current mode with every idle rate and feature set,
\* built in any reachable state, and for the batch a callback has just sent.
C20_BatchContents ==
    /\ current_mode # NoMode =>
         \A idle_vrefresh \in IdleRates : \A f \in SUBSET bitmap_fill :
            Build(Ctx, current_mode, idle_vrefresh, f, TRUE).wire
               = ExpectedBatch(current_mode.vrefresh, idle_vrefresh, f)
    /\ (last.upf = "flush" /\ last.op \in BatchOnly) =>
            last.wire = ExpectedBatch(hw_vrefresh, hw_idle_vrefresh, hw_feat)

\* a mode-set has sent the long batch with early exit on, automatic frame
\* insertion for the idle rate 30 and the TE shift of 60 Hz
C20_Witness ==
    /\ last.op = "mode_set"
    /\ last.upf = "flush"
    /\ hw_vrefresh = 60
    /\ hw_idle_vrefresh = 30
    /\ hw_feat = bitmap_fill
    /\ Len(last.wire) = 8
    /\ last.wire[3] = Cmd(<<90, 0>>, FALSE)
    /\ last.wire[6] = Cmd(BA_auto_30, FALSE)
    /\ last.wire[8] = Cmd(<<68, 0, 1>>, TRUE)

\* a step of a callback that can change the frequency
FrequencyChangeStep ==
    \/ \E pmode \in NormalModes : ModeSet(pmode)
    \/ \E pmode \in NormalModes : SetNolpMode(pmode)
    \/ \E enable \in BOOLEAN : SetSelfRefresh(enable)
    \/ \E delta_us \in CommitDeltas : CommitDone(delta_us)

\* C19: a frequency change made while high brightness or dimming is on,
\* panel idle is off, the minimum rate is 0 or the mode has no idle leaves
\* the idle rate 0, the idle not deferred, and early exit and automatic
\* frame insertion clear in the requested and in the committed features
C19_AutoModeOff ==
    [][(FrequencyChanged' /\ AutoModeOff' /\ FrequencyChangeStep) =>
          /\ auto_mode_vrefresh' = 0
          /\ ~delayed_idle'
          /\ feat' = {}
          /\ hw_feat' = {}]_vars

\* a frequency change during dimming that had to take an idle configuration
\* off the panel
C19_Witness ==
    /\ FrequencyChanged
    /\ dimming_on
    /\ ~hbm_on
    /\ panel_idle_enabled
    /\ min_vrefresh = 30
    /\ idle_delay_ms = 0
    /\ current_mode.idle_mode = IDLE_MODE_ON_INACTIVITY
    /\ auto_mode_vrefresh = 0
    /\ feat = {}
    /\ hw_feat = {}
    /\ last.updated
    /\ last.upf = "flush"

\* a combination of rate, idle rate and features that has no frame insertion
\* payload
Unsupported(vrefresh, idle_vrefresh, f) ==
    IF ~test_bit(G10_FEAT_FRAME_AUTO, f)
    THEN vrefresh # 60 /\ vrefresh # 120
    ELSE idle_vrefresh \notin {10, 30, 60}

\* the long batch without its frame insertion command
BatchWithoutBA(vrefresh, f) ==
    << Cmd(<<47, 0>>, FALSE),
       Cmd(<<47, 48>>, FALSE),
       Cmd(<<90, IF test_bit(G10_FEAT_EARLY_EXIT, f) THEN 0 ELSE 1>>, FALSE),
       Cmd(<<240, 85, 170, 82, 8, 0>>, FALSE),
       Cmd(<<111, 28>>, FALSE),
       Cmd(<<44>>, FALSE),
       Cmd(<<68, 0, IF vrefresh = 120 THEN 0 ELSE 1>>, TRUE) >>

\* C21: a batch built for a combination without payload (manual insertion
\* at a rate other than 60 and 120, automatic insertion at an idle rate
\* other than 10, 30, 60) warns, leaves out the BA command only, sends the
\* other commands in order up to the flushed TE shift, and commits the rate,
\* the idle rate and the features it was built for.  It holds for the batch
\* of the current mode with every idle rate and feature set, and for the
\* batch an enable has just sent.
C21_UnsupportedSkipsBA ==
    /\ current_mode # NoMode =>
         \A idle_vrefresh \in IdleRates : \A f \in SUBSET bitmap_fill :
            Unsupported(current_mode.vrefresh, idle_vrefresh, f) =>
               LET c == Build(Ctx, current_mode, idle_vrefresh, f, TRUE)
               IN  /\ c.warn
                   /\ c.updated
                   /\ c.wire = BatchWithoutBA(current_mode.vrefresh, f)
                   /\ c.hw_vrefresh = current_mode.vrefresh
                   /\ c.hw_idle_vrefresh = idle_vrefresh
                   /\ c.hw_feat = f
    /\ (last.op = "enable" /\ ~last.err
        /\ Unsupported(hw_vrefresh, hw_idle_vrefresh, hw_feat)) => last.warn

\* the panel was switched on in the 30 Hz low-power mode: the batch went out
\* with a warning and the committed rate is 30
C21_Witness ==
    /\ last.op = "enable"
    /\ last.warn
    /\ last.upf = "flush"
    /\ current_mode = nt37290_lp_mode
    /\ hw_vrefresh = 30
    /\ Build(Ctx, current_mode, 0, {}, TRUE).wire = BatchWithoutBA(30, {})

\* the inputs of the resolver ask for an idle rate below the rate of the
\* current mode: auto mode is allowed and the minimum rate, rounded up to
\* 10, 30 or 60, is below it
IdleWanted ==
    /\ ~hbm_on
    /\ ~dimming_on
    /\ panel_idle_enabled
    /\ min_vrefresh # 0
    /\ \/ min_vrefresh <= 10 /\ 10 < current_mode.vrefresh
       \/ min_vrefresh > 10 /\ min_vrefresh <= 30 /\ 30 < current_mode.vrefresh
       \/ min_vrefresh > 30 /\ min_vrefresh <= 60 /\ 60 < current_mode.vrefresh

\* the idle of a mode that idles on inactivity is deferred, on an active
\* panel
IdleDeferred ==
    /\ enabled
    /\ current_mode # NoMode
    /\ current_mode.idle_mode = IDLE_MODE_ON_INACTIVITY
    /\ ~test_bit(G10_FEAT_EARLY_EXIT, feat)
    /\ delayed_idle

\* C22: while the idle of an inactivity mode is deferred, every commit-done
\* on the active panel runs the frequency change again for the current
\* mode; when it does so idle_delay_ms or more after the last mode-set, with
\* the inputs still asking for an idle rate, the idle is no longer deferred
\* and early exit and automatic frame insertion are set in the requested and
\* in the committed features.
C22_DeferredIdleReevaluated ==
    [][IdleDeferred =>
         \A delta_us \in CommitDeltas :
            CommitDone(delta_us) =>
               /\ last'.cf = 1
               /\ current_mode' = current_mode
               /\ (IdleWanted /\ mode_set_age_us \div 1000 >= idle_delay_ms) =>
                     /\ ~delayed_idle'
                     /\ feat' = bitmap_fill
                     /\ hw_feat' = bitmap_fill]_vars

\* a commit-done 50 ms after the mode-set has ended a deferred idle
C22_Witness ==
    /\ last.op = "commit_done"
    /\ last.cf = 1
    /\ last.ee = "none"
    /\ last.updated
    /\ idle_delay_ms = 50
    /\ mode_set_age_us = 50000
    /\ current_mode.idle_mode = IDLE_MODE_ON_INACTIVITY
    /\ ~delayed_idle
    /\ feat = bitmap_fill
    /\ hw_feat = bitmap_fill

\* commit-done will take the long-idle path of the early-exit trigger
LongIdle(delta_us) ==
    /\ enabled
    /\ current_mode # NoMode
    /\ test_bit(G10_FEAT_EARLY_EXIT, feat)
    /\ idle_delay_ms # 0
    /\ delta_us > 50000

\* C23: a commit-done that comes more than 50000 us after the last commit,
\* with early exit requested and an idle delay configured, turns idle off:
\* the resolved and the committed idle rate are 0 and early exit and
\* automatic frame insertion are clear in the requested and in the committed
\* features; with the inputs still asking for an idle rate in a mode that
\* has idle, the idle is deferred.
C23_LongIdleTurnsIdleOff ==
    [][\A delta_us \in CommitDeltas :
          (LongIdle(delta_us) /\ CommitDone(delta_us)) =>
             /\ last'.ee = "full"
             /\ auto_mode_vrefresh' = 0
             /\ hw_idle_vrefresh' = 0
             /\ feat' = {}
             /\ hw_feat' = {}
             /\ (IdleWanted /\ current_mode.idle_mode # IDLE_MODE_UNSUPPORTED)
                   => delayed_idle']_vars

\* the long-idle path was taken long after the last mode-set and has taken
\* the idle configuration off the panel
C23_Witness ==
    /\ last.op = "commit_done"
    /\ last.ee = "full"
    /\ last.delta_us = 50001
    /\ last.updated
    /\ idle_delay_ms = 50
    /\ mode_set_age_us = 0
    /\ delayed_idle
    /\ auto_mode_vrefresh = 0
    /\ hw_idle_vrefresh = 0
    /\ feat = {}
    /\ hw_feat = {}

\* C24: a callback that changed the frequency notified the backlight once
\* when the change sent a batch and not at all when it found nothing to
\* change; a callback that did not change the frequency did not notify
C24_BacklightNotified ==
    /\ FrequencyChanged =>
         /\ last.upf \in {"flush", "same"}
         /\ last.upf = "flush" => (last.updated /\ last.bl = 1)
         /\ last.upf = "same" => (~last.updated /\ last.bl = 0)
    /\ last.cf = 0 => last.bl = 0

\* entering self-refresh has sent a batch and notified the backlight
C24_Witness ==
    /\ last.op = "set_self_refresh"
    /\ FrequencyChanged
    /\ last.upf = "flush"
    /\ last.updated
    /\ last.bl = 1
    /\ self_refresh_active

\* C25: after a frequency change the effective idle rate of the panel is the
\* committed idle rate while self-refresh is active and 0 while it is not,
\* whether or not the change sent anything
C25_PanelIdleVrefresh ==
    FrequencyChanged =>
        panel_idle_vrefresh =
            IF self_refresh_active THEN hw_idle_vrefresh ELSE 0

\* a frequency change in self-refresh that found nothing to change left the
\* effective idle rate at the committed 30 Hz
C25_Witness ==
    /\ FrequencyChanged
    /\ ~last.updated
    /\ last.upf = "same"
    /\ self_refresh_active
    /\ hw_idle_vrefresh = 30
    /\ panel_idle_vrefresh = 30

\* C26: in every reachable state, automatic frame insertion requested comes
\* with a resolved idle rate of 10, 30 or 60, and automatic frame insertion
\* committed comes with a committed idle rate of 10, 30 or 60; no batch with
\* automatic frame insertion has warned of an idle rate without payload
C26_FrameAutoHasIdleRate ==
    /\ test_bit(G10_FEAT_FRAME_AUTO, feat) => auto_mode_vrefresh \in {10, 30, 60}
    /\ test_bit(G10_FEAT_FRAME_AUTO, hw_feat) => hw_idle_vrefresh \in {10, 30, 60}
    /\ (last.upf = "flush" /\ test_bit(G10_FEAT_FRAME_AUTO, hw_feat)) => ~last.warn

\* the panel was switched on again with automatic frame insertion still
\* requested from before the power-off: the batch took the idle rate 30
C26_Witness ==
    /\ last.op = "enable"
    /\ last.upf = "flush"
    /\ ~last.warn
    /\ feat = bitmap_fill
    /\ hw_feat = bitmap_fill
    /\ auto_mode_vrefresh = 30
    /\ hw_idle_vrefresh = 30

\* the step sent no command and left the requested and the committed
\* features, the committed rate and idle rate, the resolved idle rate and
\* the deferral as they were
NothingDone ==
    /\ last'.wire = <<>>
    /\ UNCHANGED <<feat, hw_feat, hw_vrefresh, hw_idle_vrefresh,
                   auto_mode_vrefresh, delayed_idle>>

\* C27: a mode-set, an exit from the low-power mode and a commit-done on a
\* panel that is not active, and a self-refresh entry or exit while the
\* current mode is the low-power mode, send no command and leave the
\* requested and committed features, the committed rate and idle rate, the
\* resolved idle rate and the deferral unchanged; the self-refresh callback
\* reports no change.
C27_IgnoredEvents ==
    [][/\ ~enabled =>
            /\ \A pmode \in NormalModes :
                  (ModeSet(pmode) \/ SetNolpMode(pmode)) => NothingDone
            /\ \A delta_us \in CommitDeltas :
                  CommitDone(delta_us) => NothingDone
       /\ (current_mode # NoMode /\ current_mode.is_lp_mode) =>
            \A enable \in BOOLEAN :
               SetSelfRefresh(enable) => (NothingDone /\ ~last'.updated)]_vars

\* self-refresh was entered in the low-power mode on an active panel whose
\* idle configuration stayed as it was
C27_Witness ==
    /\ last.op = "set_self_refresh"
    /\ enabled
    /\ current_mode = nt37290_lp_mode
    /\ self_refresh_active
    /\ last.wire = <<>>
    /\ ~last.updated
    /\ feat = bitmap_fill
    /\ hw_feat = bitmap_fill
    /\ hw_idle_vrefresh = 30

----------------------------------------------------------------------------
(* Properties of the TE2 signal, local high-brightness mode and the        *)
(* transport, under SpecPanel                                              *)

\* C11: the TE2 option is Fixed (0x22) exactly when the current mode is the
\* low-power mode or the committed idle rate is nonzero and below 30, and
\* Changeable (0x02) otherwise; the TE2 update sends that option.
C11_Te2Option ==
    LET fixed == current_mode.is_lp_mode
                 \/ (hw_idle_vrefresh # 0 /\ hw_idle_vrefresh < 30)
        option == IF fixed THEN 34 ELSE 2
    IN  /\ nt37290_get_te2_option(Ctx) = option
        /\ (last.op = "update_te2" /\ last.wire # <<>>) =>
               /\ last.wire[2].bytes = <<195, option>>
               /\ last.wire[4].bytes = <<195, option>>

\* C11 happens: the TE2 update sent Fixed for an idle rate of 10 outside
\* the low-power mode
C11_Witness ==
    /\ last.op = "update_te2"
    /\ ~current_mode.is_lp_mode
    /\ hw_idle_vrefresh = 10
    /\ last.wire # <<>>
    /\ last.wire[2].bytes = <<195, 34>>

\* C13: when the transport fails a transfer of the batch, the
\* nt37290_change_frequency call does not return to its caller what it
\* returns for a batch that was sent: it does not report the change as made.
C13_FailureSurfaced ==
    (last.cf = 1 /\ last.upf = "flush" /\ last.io_err) => ~last.updated

\* the timing write of the TE2 update: C4 with the two edges
Te2TimingCmd(rising, falling) ==
    Cmd(<<196, 0, 0, 0, 0, 0, rising, 16, falling>>, TRUE)

\* C14: a TE2 update whose timing source answers 0 sends the low 8 bits of
\* the source's edges; one whose source answers -EAGAIN sends rising 0 and
\* falling 0x30 and completes; one whose source answers another error sends
\* no command at all.
C14_Te2Timing ==
    [][\A timing \in Te2Results :
          UpdateTe2(timing) =>
             IF timing.ret = 0
             THEN /\ Len(last'.wire) = 5
                  /\ last'.wire[5] = Te2TimingCmd(timing.rising_edge % 256,
                                                  timing.falling_edge % 256)
             ELSE IF timing.ret = -EAGAIN
             THEN /\ Len(last'.wire) = 5
                  /\ last'.wire[5] = Te2TimingCmd(0, 48)
             ELSE last'.wire = <<>>]_vars

\* C14 happens: the source answered edges of more than 8 bits (261, 560)
\* and their low bytes 5 and 48 were sent
C14_Witness ==
    /\ last.op = "update_te2"
    /\ Len(last.wire) = 5
    /\ last.wire[5] = Te2TimingCmd(5, 48)

\* C15: a request for the local high-brightness state that is already
\* active sends no command and changes nothing of the panel's state.
C15_LhbmIdempotent ==
    [][\A local_hbm_en \in BOOLEAN :
          (SetLocalHbmMode(local_hbm_en) /\ local_hbm_enabled = local_hbm_en)
          => /\ last'.wire = <<>>
             /\ UNCHANGED <<feat, hw_feat, hw_vrefresh, hw_idle_vrefresh,
                            auto_mode_vrefresh, delayed_idle, panel_idle_vrefresh,
                            current_mode, enabled, self_refresh_active,
                            mode_set_age_us, local_hbm_enabled, config>>]_vars

\* C15 happens: local high-brightness mode was requested on while it was on
C15_Witness ==
    /\ last.op = "set_local_hbm_mode"
    /\ local_hbm_enabled
    /\ last.wire = <<>>

LhbmOnAt(br) ==
    nt37290_set_local_hbm_mode(
        [Again(Ctx) EXCEPT !.local_hbm_enabled = FALSE, !.rev_ge_evt1 = TRUE,
                           !.brightness = br],
        TRUE).wire

\* the DF command with the level as high byte and low byte, three times
ScaledLevel(high, low) == Cmd(<<223, high, low, high, low, high, low>>, FALSE)

\* C28: switching local high brightness on sends a panel of revision EVT1
\* or newer the DF command with 4 times the backlight level as a 16-bit
\* value, high byte then low byte, three times, then 2F 02, 87 01 and 85;
\* it sends an older panel 87 21 and 85 and nothing else.  For every
\* backlight level from 0 to 4094 the two bytes of the DF command are bytes
\* and make up exactly 4 times the level; the levels are gone through when
\* the switch is the first callback after the probe.
C28_LhbmOn ==
    [][(~local_hbm_enabled /\ SetLocalHbmMode(TRUE)) =>
         /\ IF rev_ge_evt1
            THEN /\ Len(last'.wire) = 6
                 /\ last'.wire[3] = ScaledLevel((4 * brightness) \div 256,
                                                (4 * brightness) % 256)
                 /\ 4 * brightness < 65536
                 /\ last'.wire[4] = Cmd(<<47, 2>>, FALSE)
                 /\ last'.wire[5] = Cmd(<<135, 1>>, FALSE)
                 /\ last'.wire[6] = Cmd(<<133>>, TRUE)
            ELSE last'.wire = << Cmd(<<135, 33>>, FALSE), Cmd(<<133>>, TRUE) >>
         /\ last.op = "probe" =>
               \A br \in 0 .. nt37290_max_brightness :
                  \E high \in 0 .. 255 : \E low \in {(4 * br) - (256 * high)} :
                     /\ low \in 0 .. 255
                     /\ LhbmOnAt(br)[3] = ScaledLevel(high, low)]_vars

\* local high brightness was switched on at the largest backlight level,
\* 4094: the level sent is 16376, 0x3F 0xF8
C28_Witness ==
    /\ last.op = "set_local_hbm_mode"
    /\ local_hbm_enabled
    /\ rev_ge_evt1
    /\ brightness = nt37290_max_brightness
    /\ Len(last.wire) = 6
    /\ last.wire[3] = ScaledLevel(63, 248)

----------------------------------------------------------------------------
(* Properties of the two threads of one panel, under SpecLocked *)

\* the batch that configures the panel as the committed state says
CommittedBatch ==
    nt37290_feat_cmds([Ctx EXCEPT !.feat = hw_feat], hw_vrefresh,
                      hw_idle_vrefresh).wire

\* C17: a mode-set and a commit-done that arrive together run one after the
\* other: only one of them is between taking and releasing the lock, two
\* batches never mix on the wire, and when both have returned the committed
\* state is the one the last batch on the wire configures
C17_Atomic ==
    /\ \A t \in Threads : \A u \in Threads :
         (sched.pc[t] \in CriticalPcs /\ sched.pc[u] \in CriticalPcs) => t = u
    /\ ~sched.interleaved
    /\ (Quiet /\ sched.sent # <<>>) => sched.sent = CommittedBatch

\* the commit-done waits for the lock while the mode-set sends its batch
C17_Witness ==
    /\ sched.pc["commit_done"] = "waiting"
    /\ sched.pc["mode_set"] = "sending"
    /\ sched.mode_lock = "mode_set"
    /\ enabled

====
